---------------------------- MODULE Spec2Model ----------------------------
(***************************************************************************)
(* A model of the bybit-macd-bot scanner: the scheduling loop of           *)
(* main.main_loop (instrument listing, ticker prefilter, concurrent        *)
(* per-symbol evaluation, ranking, open-interest enrichment, emission),    *)
(* the retrying gateway methods of bybit_api.BybitAPI, and the pure        *)
(* selection functions they use.                                           *)
(*                                                                         *)
(* Strings the code cuts and rebuilds (symbols) are sequences of tokens,   *)
(* so that str.replace is modelled by what it does to them.  Prices and    *)
(* indicator values are small integers; a ratio is compared by cross       *)
(* multiplication.                                                         *)
(***************************************************************************)
EXTENDS Integers, Sequences, FiniteSets, TLC

(***************************************************************************)
(* Bounds of the model.                                                    *)
(***************************************************************************)
\* TOP_N is read with env_int and is any integer; the model draws it from -1..MaxTopN
MaxTopN == 2
\* PREFILTER_MULTIPLIER is drawn from 0..MaxMultiplier
MaxMultiplier == 2
\* pages one get_instruments attempt follows before the provider ends the cursor
MaxPages == 2
\* WORKERS is read with env_int (default 8); the model runs a pool of this width
WORKERS == 2

\* accepted symbols in a result collection handed to the ranking
MaxAccepted == 3
\* records the history log grows to
MaxHistory == 2

\* the largest configured retry count and backoff (seconds) explored
MaxRetries == 4

MaxBackoff == 3

\* the largest number of comma-separated tokens in TIMEFRAMES
MaxTokens == 2

(***************************************************************************)
(* Program constants.                                                      *)
(***************************************************************************)
\* main.py:261  max_workers=min(6, WORKERS)
OI_POOL_CAP == 6
\* main.py:183  len(kl) < 30 for week/month intervals
MIN_BARS_LONG == 30
\* main.py:183  len(kl) < 50 for every other interval
MIN_BARS == 50
\* bybit_api.py:55  stop_after_attempt(3)
STOP_AFTER_ATTEMPT == 3
\* bybit_api.py:55  wait_fixed(2)
WAIT_FIXED == 2
\* bybit_api.py:40  r.status_code != 200
HTTP_OK == 200

Min(a, b) == IF a < b THEN a ELSE b

Max(a, b) == IF a > b THEN a ELSE b

Range(s) == {s[i] : i \in DOMAIN s}

(***************************************************************************)
(* Python's s[:n]: the first n items for n >= 0, all but the last -n       *)
(* items for n < 0.                                                        *)
(***************************************************************************)
SliceTo(s, n) ==
    IF n >= 0 THEN SubSeq(s, 1, Min(n, Len(s)))
    ELSE SubSeq(s, 1, Max(Len(s) + n, 0))

(***************************************************************************)
(* Python's sorted(s, key=...): a stable sort, so an item goes after every *)
(* item whose key orders before its own and after the items with an equal  *)
(* key that stood before it.  before holds the pairs <<i, j>> of positions  *)
(* with key(s[i]) < key(s[j]), or key(s[i]) > key(s[j]) under reverse=True.*)
(***************************************************************************)
StableSort(s, before) ==
    LET pos(i) == 1 + Cardinality({j \in DOMAIN s :
                        \/ <<j, i>> \in before
                        \/ (<<i, j>> \notin before /\ j < i)})
    IN  [p \in DOMAIN s |-> s[CHOOSE i \in DOMAIN s : pos(i) = p]]

\* the pairs of positions of a sequence, for the key comparisons
PosPairs(s) == (DOMAIN s) \X (DOMAIN s)

(***************************************************************************)
(* Symbols.  A symbol is a sequence of tokens; "USDT" is the token the     *)
(* code removes and re-adds.                                               *)
(***************************************************************************)
SymA == <<"A", "USDT">>

SymB == <<"B", "USDT">>

SymC == <<"C", "USDT">>

\* an instrument quoted in USDT whose symbol does not carry the USDT suffix
SymAP == <<"A">>

\* main.py:232  f"{sym.replace('USDT', '')}/USDT"
DisplaySymbol(sym) == SelectSeq(sym, LAMBDA t : t # "USDT") \o <<"/USDT">>

\* main.py:253  item["symbol"].replace("/USDT", "USDT")
RequestSymbol(display) ==
    [i \in DOMAIN display |-> IF display[i] = "/USDT" THEN "USDT" ELSE display[i]]

(***************************************************************************)
(* bybit_api.get_instruments: the filter applied to each listed item.      *)
(* The strings it folds and searches are the ones a listing carries; the   *)
(* two tables give str.lower and the substring test on them.               *)
(***************************************************************************)
LowerOf(s) ==
    CASE s = "Trading" -> "trading"
      [] s = "Closed" -> "closed"
      [] s = "PreLaunch" -> "prelaunch"
      [] s = "LinearPerpetual" -> "linearperpetual"
      [] s = "LinearFutures" -> "linearfutures"
      [] OTHER -> s

UpperOf(s) ==
    CASE s = "usdt" -> "USDT"
      [] OTHER -> s

Contains(needle, s) ==
    \/ needle = s
    \/ needle = "perpetual" /\ s = "linearperpetual"

\* symbol.endswith("USDT")
EndsWithUSDT(sym) == Len(sym) > 0 /\ sym[Len(sym)] = "USDT"

\* bybit_api.py:75-87
InstrumentPasses(category, it) ==
    LET status == LowerOf(it.status)
        quote == UpperOf(it.quoteCoin)
        settle == UpperOf(it.settleCoin)
        contract_type == LowerOf(it.contractType)
        is_usdt == \/ Contains("USDT", quote)
                   \/ Contains("USDT", settle)
                   \/ EndsWithUSDT(it.symbol)
        is_trading == Contains("trading", status)
        is_linear_perp == IF category = "linear" /\ contract_type # ""
                          THEN Contains("perpetual", contract_type)
                          ELSE TRUE
    IN  is_usdt /\ is_trading /\ is_linear_perp

\* bybit_api.py:74-88, over the items of every page in order
FilterInstruments(category, items) ==
    SelectSeq(items, LAMBDA it : InstrumentPasses(category, it))

Instrument(sym, status, quote, settle, ctype) ==
    [symbol |-> sym, status |-> status, quoteCoin |-> quote,
     settleCoin |-> settle, contractType |-> ctype]

Perp(sym) == Instrument(sym, "Trading", "USDT", "USDT", "LinearPerpetual")

\* the listings the provider answers with
ProviderListings ==
    { <<Perp(SymA), Instrument(SymC, "Trading", "USDT", "USDT", "LinearFutures"),
        Perp(SymB)>>,
      <<Perp(SymAP), Perp(SymA),
        Instrument(SymB, "Closed", "USDT", "USDT", "LinearPerpetual")>>,
      <<Perp(SymB), Perp(SymA), Perp(SymC)>> }

\* listings with an item quoted and settled in another coin under a symbol
\* that ends in USDT, and with an item that carries no contractType
LooseListings ==
    { <<Instrument(SymC, "Trading", "USDC", "USDC", "LinearPerpetual"), Perp(SymA)>>,
      <<Instrument(SymB, "Trading", "USDT", "USDT", "")>> }

(***************************************************************************)
(* The ticker prefilter (main.py:147-168).  A ticker carries integer       *)
(* prices, 0 standing for an absent or empty field (the "or 0" of the      *)
(* code); numeric = FALSE is a field float() raises on.                    *)
(***************************************************************************)
Ticker(sym, high, low, last, numeric) ==
    [symbol |-> sym, high |-> high, low |-> low, last |-> last, numeric |-> numeric]

RECURSIVE TickMap(_, _)
\* main.py:150  {t["symbol"]: t for t in tickers if t.get("symbol") in symbols}
TickMap(tickers, symbols) ==
    IF tickers = <<>> THEN <<>>
    ELSE LET rest == TickMap(SubSeq(tickers, 1, Len(tickers) - 1), symbols)
             t == tickers[Len(tickers)]
         IN  IF t.symbol \notin Range(symbols) THEN rest
             ELSE IF \E i \in DOMAIN rest : rest[i].symbol = t.symbol
             THEN [i \in DOMAIN rest |->
                       IF rest[i].symbol = t.symbol THEN t ELSE rest[i]]
             ELSE Append(rest, t)

\* main.py:153-162  the rows kept, in tick_map order
TickerUsable(t) == t.numeric /\ ~(t.last <= 0 \/ t.high <= 0 \/ t.low <= 0)

\* main.py:159-160  range_pct = (high - low) / last, kept as a fraction
PrefilterRows(tick_map) ==
    LET kept == SelectSeq(tick_map, TickerUsable)
    IN  [i \in DOMAIN kept |->
            [symbol |-> kept[i].symbol,
             num |-> kept[i].high - kept[i].low, den |-> kept[i].last]]

\* a.range24h_pct > b.range24h_pct, both denominators being positive
RangeGreater(a, b) == a.num * b.den > b.num * a.den

\* the count without the multiplier
PreCount_NoMultiplier(top_n, multiplier) == top_n

\* main.py:164
PreCount(top_n, multiplier) == Max(top_n * multiplier, top_n)

\* main.py:148-168
Prefilter(use_prefilter, symbols, tickers, top_n, multiplier) ==
    IF use_prefilter # 0
    THEN LET unsorted == PrefilterRows(TickMap(tickers, symbols))
             rows == StableSort(unsorted,
                                {p \in PosPairs(unsorted) :
                                    RangeGreater(unsorted[p[1]], unsorted[p[2]])})
             cut == SliceTo(rows, PreCount(top_n, multiplier))
         IN  [i \in DOMAIN cut |-> cut[i].symbol]
    ELSE symbols

(***************************************************************************)
(* Configuration (main.py:94-116).                                         *)
(***************************************************************************)
\* main.py:18-29
TF_TO_BYBIT(tf) ==
    CASE tf = "5M" -> "5"
      [] tf = "15M" -> "15"
      [] tf = "30M" -> "30"
      [] tf = "1H" -> "60"
      [] tf = "4H" -> "240"
      [] tf = "6H" -> "360"
      [] tf = "12H" -> "720"
      [] tf = "1D" -> "D"
      [] tf = "1W" -> "W"
      [] tf = "1M" -> "M"

\* main.py:31
LONG_TF_CODES == {"W", "M"}

Config(top_n, use_prefilter, multiplier, timeframes, sort_tf) ==
    [TOP_N |-> top_n, USE_TICKERS_PREFILTER |-> use_prefilter,
     PREFILTER_MULTIPLIER |-> multiplier, CATEGORY |-> "linear",
     TIMEFRAMES |-> timeframes, SORT_TF |-> sort_tf]

\* index of the sort timeframe in TIMEFRAMES (check_sort_tf makes it a member)
SortIndex(c) == CHOOSE i \in DOMAIN c.TIMEFRAMES : c.TIMEFRAMES[i] = c.SORT_TF

(***************************************************************************)
(* Reading TIMEFRAMES and SORT_TF (main.py:45-63, 112-113).  A value of    *)
(* the environment is a sequence of characters; the names of the           *)
(* timeframes in the configuration are strings.                            *)
(***************************************************************************)
\* main.py:18-29  the keys of TF_TO_BYBIT
TF_TO_BYBIT_keys == {"5M", "15M", "30M", "1H", "4H", "6H", "12H", "1D", "1W", "1M"}

\* str.upper, by character
UpperChar(c) ==
    CASE c = "m" -> "M"
      [] c = "h" -> "H"
      [] c = "d" -> "D"
      [] c = "w" -> "W"
      [] c = "o" -> "O"
      [] c = "x" -> "X"
      [] OTHER -> c

upper(cs) == [i \in DOMAIN cs |-> UpperChar(cs[i])]

RECURSIVE lstrip(_)
lstrip(cs) == IF cs # <<>> /\ Head(cs) = " " THEN lstrip(Tail(cs)) ELSE cs

RECURSIVE rstrip(_)
rstrip(cs) ==
    IF cs # <<>> /\ cs[Len(cs)] = " " THEN rstrip(SubSeq(cs, 1, Len(cs) - 1)) ELSE cs

\* str.strip
strip(cs) == rstrip(lstrip(cs))

\* str.split(sep): the parts between the separators, empty parts included
RECURSIVE split(_, _)
split(cs, sep) ==
    IF \A i \in DOMAIN cs : cs[i] # sep
    THEN << cs >>
    ELSE LET k == CHOOSE i \in DOMAIN cs :
                      cs[i] = sep /\ \A j \in 1..(i - 1) : cs[j] # sep
         IN  << SubSeq(cs, 1, k - 1) >> \o split(SubSeq(cs, k + 1, Len(cs)), sep)

\* sep.join(parts)
RECURSIVE join(_, _)
join(sep, parts) ==
    IF parts = <<>> THEN <<>>
    ELSE IF Len(parts) = 1 THEN parts[1]
    ELSE parts[1] \o << sep >> \o join(sep, Tail(parts))

\* the string of a sequence of characters
RECURSIVE Str(_)
Str(cs) == IF cs = <<>> THEN "" ELSE Head(cs) \o Str(Tail(cs))

\* the tokens of env_val, stripped and upper-cased, blank ones left out
\* (main.py:48)
Items(env_val) ==
    LET parts == split(env_val, ",")
        kept == SelectSeq(parts, LAMBDA x : strip(x) # <<>>)
    IN  [i \in DOMAIN kept |-> Str(upper(strip(kept[i])))]

\* every token kept, whether TF_TO_BYBIT has it or not
parse_timeframes_NoValidation(env_val) ==
    IF env_val = <<>> THEN <<"1D", "1W">>
    ELSE LET valid == Items(env_val)
         IN  IF valid = <<>> THEN <<"1D", "1W">> ELSE valid

\* main.py:45-55
parse_timeframes(env_val) ==
    IF env_val = <<>> THEN <<"1D", "1W">>
    ELSE LET valid == SelectSeq(Items(env_val), LAMBDA x : x \in TF_TO_BYBIT_keys)
         IN  IF valid = <<>> THEN <<"1D", "1W">> ELSE valid

\* main.py:58-63, s the stripped and upper-cased sort_tf
check_sort_tf(s, timeframes) ==
    IF \E i \in DOMAIN timeframes : timeframes[i] = s THEN s ELSE timeframes[1]

\* os.getenv: <<>> for a name that is not set, << value >> otherwise;
\* written keeps the tokens TIMEFRAMES was composed of
Env(timeframes, sort_tf, written) ==
    [TIMEFRAMES |-> timeframes, SORT_TF |-> sort_tf, written |-> written]

\* the environment of the configuration the loop is followed under
LoopEnv ==
    Env(<< join(",", << <<"4", "H">>, <<"1", "W">> >>) >>, <<>>,
        << <<"4", "H">>, <<"1", "W">> >>)

(***************************************************************************)
(* The per-symbol evaluator, main.py:171-218 (load_pair).  A task is the   *)
(* state of one call: the loop index, the dicts filled so far, and what it *)
(* returned.  data is <<>> for None and <<payload>> otherwise.  lens keeps *)
(* the length of every candle series the call was given.                   *)
(***************************************************************************)
\* the classification by the sign of the histogram alone
classify_trend_HistOnly(macd_line, signal_line, hist) ==
    IF hist > 0 THEN "BULL" ELSE IF hist < 0 THEN "BEAR" ELSE "NEUTRAL"

\* main.py:77-84
classify_trend(macd_line, signal_line, hist) ==
    LET bull == (macd_line > signal_line) /\ (hist > 0)
        bear == (macd_line < signal_line) /\ (hist < 0)
    IN  IF bull THEN "BULL" ELSE IF bear THEN "BEAR" ELSE "NEUTRAL"

\* the guard with one minimum for every timeframe
TooShort_OneMinimum(tf, n) == n < MIN_BARS

\* main.py:183  the length guard of one timeframe
TooShort(tf, n) ==
    LET interval == TF_TO_BYBIT(tf)
    IN  \/ (interval \in LONG_TF_CODES /\ n < MIN_BARS_LONG)
        \/ (interval \notin LONG_TF_CODES /\ n < MIN_BARS)

\* main.py:196  atr_pct_val, in percent
AtrPct(atr_abs, last_close) ==
    IF last_close # 0 THEN (atr_abs * 100) \div last_close ELSE 0

NewTask ==
    [st |-> "pending", i |-> 1, trends |-> <<>>, tails |-> <<>>, rsis |-> <<>>,
     atr_pct |-> <<>>, lens |-> <<>>, fetched |-> 0, raised |-> FALSE, data |-> <<>>]

\* main.py:184, 203, 218  return sym, None
Rejected(t) == [t EXCEPT !.st = "done", !.data = <<>>, !.rsis = <<>>, !.atr_pct = <<>>]

\* the agreement test without its NEUTRAL clause
Finish_NeutralAccepted(c, t) ==
    LET uniq == Range(t.trends)
    IN  IF Cardinality(uniq) # 1
        THEN Rejected(t)
        ELSE [t EXCEPT !.st = "done",
                       !.data = << [common_trend |-> CHOOSE x \in uniq : TRUE,
                                    atr_pct_map |-> t.atr_pct,
                                    rsi_map |-> t.rsis,
                                    atr_sort_pct |-> t.atr_pct[SortIndex(c)]] >>]

\* main.py:201-215  after the last timeframe
Finish(c, t) ==
    LET uniq == Range(t.trends)
    IN  IF "NEUTRAL" \in uniq \/ Cardinality(uniq) # 1
        THEN Rejected(t)
        ELSE [t EXCEPT !.st = "done",
                       !.data = << [common_trend |-> CHOOSE x \in uniq : TRUE,
                                    atr_pct_map |-> t.atr_pct,
                                    rsi_map |-> t.rsis,
                                    atr_sort_pct |-> t.atr_pct[SortIndex(c)]] >>]

(***************************************************************************)
(* One iteration of the loop over TIMEFRAMES (main.py:178-198), the call   *)
(* finishing after the last one.  kl is what get_klines did: kl.ok = FALSE *)
(* when it raised, else kl.len candles.  ind is what kline_to_df and       *)
(* compute_indicators did: ind.ok = FALSE when one of them raised, else    *)
(* the tail values.                                                        *)
(***************************************************************************)
LoadPairIter(c, t, kl, ind) ==
    LET tf == c.TIMEFRAMES[t.i]
        got == [t EXCEPT !.st = "running", !.fetched = @ + 1]
    IN  IF ~kl.ok THEN [Rejected(got) EXCEPT !.raised = TRUE]
        ELSE LET seen == [got EXCEPT !.lens = Append(@, kl.len)]
             IN  IF TooShort(tf, kl.len) THEN Rejected(seen)
                 ELSE IF ~ind.ok THEN [Rejected(seen) EXCEPT !.raised = TRUE]
                 ELSE LET filled ==
                              [seen EXCEPT
                                 !.trends = Append(@, classify_trend(ind.m, ind.s, ind.h)),
                                 !.tails = Append(@, <<ind.m, ind.s, ind.h>>),
                                 !.rsis = Append(@, ind.rsi),
                                 !.atr_pct = Append(@, AtrPct(ind.atr, ind.close)),
                                 !.i = @ + 1]
                      IN  IF t.i = Len(c.TIMEFRAMES) THEN Finish(c, filled)
                          ELSE filled

Klines(ok, n) == [ok |-> ok, len |-> n]

Indicators(ok, m, s, h, rsi, atr, close) ==
    [ok |-> ok, m |-> m, s |-> s, h |-> h, rsi |-> rsi, atr |-> atr, close |-> close]

(***************************************************************************)
(* Ranking and enrichment, main.py:228-273.                                *)
(***************************************************************************)
\* main.py:231-239  sym is the key of results the record was built from
BaseRecord(sym, d) ==
    [sym |-> sym, symbol |-> DisplaySymbol(sym), atr_pct |-> d.atr_sort_pct,
     rsi |-> d.rsi_map, oi |-> <<>>]

\* main.py:229-244  results is the list of (sym, data) in insertion order
GroupOf(results, trend) ==
    LET mine == SelectSeq(results, LAMBDA r : r.data.common_trend = trend)
    IN  [i \in DOMAIN mine |-> BaseRecord(mine[i].sym, mine[i].data)]

AtrGreater(a, b) == a.atr_pct > b.atr_pct

\* the slice without the sort
TopN_Unsorted(list, top_n) == SliceTo(list, top_n)

\* main.py:247-248
TopN(list, top_n) ==
    SliceTo(StableSort(list, {p \in PosPairs(list) :
                                AtrGreater(list[p[1]], list[p[2]])}),
            top_n)

RECURSIVE SumSeq(_)
SumSeq(q) == IF q = <<>> THEN 0 ELSE q[1] + SumSeq(SubSeq(q, 2, Len(q)))

\* main.py:266-270
rsi_sum(item) == SumSeq(item.rsi)

RsiGreater(a, b) == rsi_sum(a) > rsi_sum(b)

\* main.py:272-273
FinalOrder(list) ==
    StableSort(list, {p \in PosPairs(list) : RsiGreater(list[p[1]], list[p[2]])})

\* main.py:255-257  what add_oi stores for an outcome of get_open_interest:
\* the call raised, returned None, or returned a float
OiStored(o) == IF o.raised \/ o.none THEN 0 ELSE o.value

OiOutcome(raised, none, value) == [raised |-> raised, none |-> none, value |-> value]

\* main.py:261
OiWorkers == Min(OI_POOL_CAP, WORKERS)

(***************************************************************************)
(* The report, reporter.py:27-74.  The text is kept by its parts: the      *)
(* timeframes of the title, the ranking the header states, and the rows of *)
(* the two sections in the order they are printed.                         *)
(***************************************************************************)
\* reporter.py:50-63  the lines of one item; OI is printed when positive
ReportRow(it) ==
    [symbol |-> it.symbol, atr_pct |-> it.atr_pct, rsi |-> it.rsi,
     oi |-> IF it.oi # <<>> /\ it.oi[1] > 0 THEN it.oi ELSE <<>>]

\* reporter.py:43-63
section(items) == [i \in DOMAIN items |-> ReportRow(items[i])]

\* reporter.py:27-68  line 39 states the lists as sorted by ATR of sort_tf,
\* descending
build_report_txt(bull_list, bear_list, timeframes, sort_tf) ==
    [timeframes |-> timeframes,
     ranking |-> [key |-> "ATR", tf |-> sort_tf, order |-> "descending"],
     bull |-> section(bull_list),
     bear |-> section(bear_list)]

(***************************************************************************)
(* The history log, utils.py:19-33.  The file HISTORY_JSON is absent, or   *)
(* holds a JSON array of records ("array"), or text json.load raises on    *)
(* ("invalid"), or a JSON value that is no array ("object": a dict, a      *)
(* string, a number, null).                                                *)
(***************************************************************************)
HistoryFile(kind, records) == [kind |-> kind, records |-> records]

NoFile == HistoryFile("absent", <<>>)

\* utils.py:21  record = {"ts": ts_now_iso(), **payload}
HistoryRecord(ts, payload) == [ts |-> ts, payload |-> payload]

\* append_history that starts a fresh array whenever the file exists
append_history_Overwrites(file, record) ==
    IF file.kind = "object"
    THEN [file |-> file, raised |-> TRUE]
    ELSE [file |-> HistoryFile("array", <<record>>), raised |-> FALSE]

\* utils.py:19-33  append_history: the file it leaves and whether it raised
append_history(file, record) ==
    IF file.kind = "absent"
    THEN [file |-> HistoryFile("array", <<record>>), raised |-> FALSE]
    ELSE IF file.kind = "invalid"
    THEN [file |-> HistoryFile("array", <<record>>), raised |-> FALSE]
    ELSE IF file.kind = "array"
    THEN [file |-> HistoryFile("array", Append(file.records, record)), raised |-> FALSE]
    ELSE [file |-> file, raised |-> TRUE]

(***************************************************************************)
(* State.                                                                  *)
(***************************************************************************)
VARIABLES
    cfg,          \* the configuration read at startup
    pc,           \* where main_loop is in its cycle
    symbols,      \* main.py:144
    tickers,      \* main.py:149
    pre_top,      \* main.py:165/168
    tasks,        \* the load_pair calls submitted at main.py:222, by position in pre_top
    results,      \* main.py:220-226, as the list of (sym, data) in insertion order
    bull_all,     \* bull_list before main.py:247
    bear_all,     \* bear_list before main.py:248
    bull_list,    \* main.py:247, enriched in place by add_oi
    bear_list,    \* main.py:248
    oi_requests,  \* the symbols get_open_interest was called for in this cycle
    bull_sorted,  \* main.py:272
    bear_sorted,  \* main.py:273
    emitted,      \* the outputs produced in this cycle, in order
    cycle_error,  \* the stage whose error reached main.py:291 in this cycle, or "none"
    gw,           \* one call of a gateway method under its retry decorator
    history_json, \* utils.py:10  the file HISTORY_JSON
    gw_pool,      \* the gateway calls running in the threads of a pool, by thread
    api,          \* main.py:131-137  the attributes of the BybitAPI instance
    env,          \* the environment read at main.py:112-113
    last_report   \* reporter.py:8  the file LAST_REPORT: <<>> absent, << text >> written

loopVars == <<pc, symbols, tickers, pre_top, tasks, results, bull_all, bear_all,
              bull_list, bear_list, oi_requests, bull_sorted, bear_sorted,
              emitted, cycle_error>>

\* what the cycle's own steps leave alone
sideVars == <<history_json, gw_pool, api, env, last_report>>

vars == <<cfg, loopVars, gw, sideVars>>

GwIdle == [fn |-> "none", st |-> "idle"]

\* bybit_api.py:17-34  what the constructor stores of the retry settings
BybitAPI(max_retries, retry_backoff_sec) ==
    [max_retries |-> max_retries, retry_backoff_sec |-> retry_backoff_sec]

\* main.py:106-107  the instance built from the defaults of MAX_RETRIES and
\* RETRY_BACKOFF_SEC
DefaultAPI == BybitAPI(3, 2)

\* the values every cycle starts from (main.py:139-140)
CycleStart ==
    /\ pc = "instruments"
    /\ symbols = <<>>
    /\ tickers = <<>>
    /\ pre_top = <<>>
    /\ tasks = <<>>
    /\ results = <<>>
    /\ bull_all = <<>>
    /\ bear_all = <<>>
    /\ bull_list = <<>>
    /\ bear_list = <<>>
    /\ oi_requests = {}
    /\ bull_sorted = <<>>
    /\ bear_sorted = <<>>
    /\ emitted = <<>>
    /\ cycle_error = "none"

(***************************************************************************)
(* What the provider and the indicator functions hand the loop.            *)
(***************************************************************************)
LoopConfigs ==
    { Config(n, u, m, <<"4H", "1W">>, "4H") :
        n \in -1..MaxTopN, u \in {0, 1}, m \in {1} }

LoopTickers ==
    { << Ticker(SymA, 3, 1, 1, TRUE), Ticker(SymB, 4, 1, 1, TRUE),
         Ticker(SymC, 0, 0, 1, TRUE), Ticker(SymAP, 2, 1, 1, TRUE) >>,
      << Ticker(SymB, 2, 1, 1, TRUE), Ticker(SymC, 6, 2, 2, TRUE),
         Ticker(SymA, 2, 1, 1, FALSE) >> }

LoopKlines == { Klines(FALSE, 0), Klines(TRUE, 25), Klines(TRUE, 50) }

LoopIndicators ==
    { Indicators(FALSE, 0, 0, 0, 0, 0, 0),
      Indicators(TRUE, 1, 0, 1, 1, 2, 100),
      Indicators(TRUE, 1, 0, 1, 2, 1, 100),
      Indicators(TRUE, 0, 1, -1, 1, 1, 100),
      Indicators(TRUE, 0, 0, 0, 1, 1, 100) }

LoopOi ==
    { OiOutcome(TRUE, FALSE, 0), OiOutcome(FALSE, TRUE, 0),
      OiOutcome(FALSE, FALSE, 0), OiOutcome(FALSE, FALSE, 7) }

(***************************************************************************)
(* The scheduling loop, main.py:139-295.                                   *)
(***************************************************************************)
\* an error of the cycle with no handler around it: the process ends
Raise_Exits(stage) ==
    /\ pc' = "exit"
    /\ cycle_error' = stage

\* main.py:291-292  an error of the cycle reaches the outer except
Raise(stage) ==
    /\ pc' = "sleep"
    /\ cycle_error' = stage

\* main.py:143-144  get_instruments returned a listing, or raised after its retries
GetInstruments ==
    /\ pc = "instruments"
    /\ \/ /\ \E listing \in ProviderListings :
                LET out == FilterInstruments(cfg.CATEGORY, listing)
                IN  symbols' = [i \in DOMAIN out |-> out[i].symbol]
          /\ pc' = "prefilter"
          /\ UNCHANGED cycle_error
       \/ /\ Raise("instruments")
          /\ UNCHANGED symbols
    /\ UNCHANGED <<cfg, gw, sideVars, tickers, pre_top, tasks, results, bull_all, bear_all, bull_list,
                   bear_list, oi_requests, bull_sorted, bear_sorted, emitted>>

\* main.py:222  one queued call of load_pair per symbol of pre_top
Submit(list) == [i \in DOMAIN list |-> NewTask]

\* main.py:148-168 and 221-222  get_tickers and the prefilter, then the submission;
\* snapshots are the ticker lists get_tickers may return
PrefilterStep(snapshots) ==
    /\ pc = "prefilter"
    /\ \/ /\ cfg.USE_TICKERS_PREFILTER # 0
          /\ \E t \in snapshots :
                /\ tickers' = t
                /\ pre_top' = Prefilter(cfg.USE_TICKERS_PREFILTER, symbols, t,
                                        cfg.TOP_N, cfg.PREFILTER_MULTIPLIER)
          /\ tasks' = Submit(pre_top')
          /\ pc' = "evaluate"
          /\ UNCHANGED cycle_error
       \/ /\ cfg.USE_TICKERS_PREFILTER # 0
          /\ Raise("tickers")
          /\ UNCHANGED <<tickers, pre_top, tasks>>
       \/ /\ cfg.USE_TICKERS_PREFILTER = 0
          /\ pre_top' = Prefilter(cfg.USE_TICKERS_PREFILTER, symbols, <<>>,
                                  cfg.TOP_N, cfg.PREFILTER_MULTIPLIER)
          /\ tasks' = Submit(pre_top')
          /\ pc' = "evaluate"
          /\ UNCHANGED <<tickers, cycle_error>>
    /\ UNCHANGED <<cfg, gw, sideVars, symbols, results, bull_all, bear_all, bull_list,
                   bear_list, oi_requests, bull_sorted, bear_sorted, emitted>>

\* a pool of width w runs its queue in order: call i runs once fewer than w of
\* the calls queued before it are unfinished
InPool(unfinished, i, w) == Cardinality({j \in unfinished : j < i}) < w

\* main.py:226  results[sym] = data
DictSet(d, sym, data) ==
    IF \E i \in DOMAIN d : d[i].sym = sym
    THEN [i \in DOMAIN d |-> IF d[i].sym = sym THEN [sym |-> sym, data |-> data] ELSE d[i]]
    ELSE Append(d, [sym |-> sym, data |-> data])

\* main.py:223-226  the main thread takes a finished call's result
Collect(res, sym, t) ==
    IF t.st = "done" /\ t.data # <<>> THEN DictSet(res, sym, t.data[1]) ELSE res

\* load_pair without its try/except: what it raises reaches the outer except
LoadPairStep_Uncaught(i, klines, indicators) ==
    /\ pc = "evaluate"
    /\ tasks[i].st # "done"
    /\ InPool({j \in DOMAIN tasks : tasks[j].st # "done"}, i, WORKERS)
    /\ \E kl \in klines, ind \in indicators :
          LET t == LoadPairIter(cfg, tasks[i], kl, ind)
          IN  /\ tasks' = [tasks EXCEPT ![i] = t]
              /\ results' = Collect(results, pre_top[i], t)
              /\ IF t.raised THEN Raise("evaluate") ELSE UNCHANGED <<pc, cycle_error>>
    /\ UNCHANGED <<cfg, gw, sideVars, symbols, tickers, pre_top, bull_all, bear_all, bull_list,
                   bear_list, oi_requests, bull_sorted, bear_sorted, emitted>>

\* main.py:171-218 run by a pool thread: one iteration of call i of load_pair
LoadPairStep(i, klines, indicators) ==
    /\ pc = "evaluate"
    /\ tasks[i].st # "done"
    /\ InPool({j \in DOMAIN tasks : tasks[j].st # "done"}, i, WORKERS)
    /\ \E kl \in klines, ind \in indicators :
          LET t == LoadPairIter(cfg, tasks[i], kl, ind)
          IN  /\ tasks' = [tasks EXCEPT ![i] = t]
              /\ results' = Collect(results, pre_top[i], t)
    /\ UNCHANGED <<cfg, gw, sideVars, pc, symbols, tickers, pre_top, bull_all, bear_all, bull_list,
                   bear_list, oi_requests, bull_sorted, bear_sorted, emitted,
                   cycle_error>>

\* the pool left without waiting for its calls
AllTasksDone_NoWait == TRUE

AllTasksDone == \A i \in DOMAIN tasks : tasks[i].st = "done"

\* main.py:228-249  after the pool of main.py:221 has shut down
Rank ==
    /\ pc = "evaluate"
    /\ AllTasksDone
    /\ bull_all' = GroupOf(results, "BULL")
    /\ bear_all' = GroupOf(results, "BEAR")
    /\ bull_list' = TopN(bull_all', cfg.TOP_N)
    /\ bear_list' = TopN(bear_all', cfg.TOP_N)
    /\ tasks' = <<>>
    /\ pc' = "enrich"
    /\ UNCHANGED <<cfg, gw, sideVars, symbols, tickers, pre_top, results, oi_requests,
                   bull_sorted, bear_sorted, emitted, cycle_error>>

Unenriched(list) == {i \in DOMAIN list : list[i].oi = <<>>}

\* add_oi without its try/except and its "or 0.0": a failed fetch loses the record
AddOi_DropsFailed(list, i, o) ==
    IF o.raised \/ o.none
    THEN SubSeq(list, 1, i - 1) \o SubSeq(list, i + 1, Len(list))
    ELSE [list EXCEPT ![i].oi = <<o.value>>]

\* main.py:252-259  add_oi on item i of a list
AddOi(list, i, o) == [list EXCEPT ![i].oi = <<OiStored(o)>>]

\* main.py:262  ex.map(add_oi, bull_list)
EnrichBull(i) ==
    /\ pc = "enrich"
    /\ i \in Unenriched(bull_list)
    /\ InPool(Unenriched(bull_list), i, OiWorkers)
    /\ \E o \in LoopOi : bull_list' = AddOi(bull_list, i, o)
    /\ oi_requests' = oi_requests \cup {RequestSymbol(bull_list[i].symbol)}
    /\ UNCHANGED <<cfg, gw, sideVars, pc, symbols, tickers, pre_top, tasks, results, bull_all, bear_all,
                   bear_list, bull_sorted, bear_sorted, emitted, cycle_error>>

\* main.py:263  ex.map(add_oi, bear_list), once list(...) of main.py:262 returned
EnrichBear(i) ==
    /\ pc = "enrich"
    /\ Unenriched(bull_list) = {}
    /\ i \in Unenriched(bear_list)
    /\ InPool(Unenriched(bear_list), i, OiWorkers)
    /\ \E o \in LoopOi : bear_list' = AddOi(bear_list, i, o)
    /\ oi_requests' = oi_requests \cup {RequestSymbol(bear_list[i].symbol)}
    /\ UNCHANGED <<cfg, gw, sideVars, pc, symbols, tickers, pre_top, tasks, results, bull_all, bear_all,
                   bull_list, bull_sorted, bear_sorted, emitted, cycle_error>>

\* main.py:265-273  after the pool of main.py:261 has shut down
FinalSort ==
    /\ pc = "enrich"
    /\ Unenriched(bull_list) = {}
    /\ Unenriched(bear_list) = {}
    /\ bull_sorted' = FinalOrder(bull_list)
    /\ bear_sorted' = FinalOrder(bear_list)
    /\ pc' = "report"
    /\ UNCHANGED <<cfg, gw, sideVars, symbols, tickers, pre_top, tasks, results, bull_all, bear_all,
                   bull_list, bear_list, oi_requests, emitted, cycle_error>>

\* an output step: it succeeds and the loop goes on, or its error ends the cycle
Emit(at, what, next) ==
    /\ pc = at
    /\ \/ /\ emitted' = Append(emitted, what)
          /\ pc' = next
          /\ UNCHANGED cycle_error
       \/ /\ Raise(what)
          /\ UNCHANGED emitted
    /\ UNCHANGED <<cfg, gw, sideVars, symbols, tickers, pre_top, tasks, results, bull_all, bear_all,
                   bull_list, bear_list, oi_requests, bull_sorted, bear_sorted>>

\* main.py:276-283
WriteReport == Emit("report", "report", "history")

\* main.py:286
AppendHistory == Emit("history", "history", "notify")

\* TelegramClient.send_document: one delivery attempt; a failed delivery is
\* logged by the client and the call returns to its caller
send_document(delivered) ==
    [raised |-> FALSE,
     attempts |-> 1,
     out |-> IF delivered THEN "notify" ELSE "notify_error_logged"]

\* the call of main.py:289 with every delivery failure reaching the caller
Notify_Propagates ==
    /\ pc = "notify"
    /\ \E delivered \in BOOLEAN :
          IF delivered
          THEN /\ emitted' = Append(emitted, "notify")
               /\ pc' = "sleep"
               /\ UNCHANGED cycle_error
          ELSE /\ Raise("notify")
               /\ UNCHANGED emitted
    /\ UNCHANGED <<cfg, gw, sideVars, symbols, tickers, pre_top, tasks, results, bull_all, bear_all,
                   bull_list, bear_list, oi_requests, bull_sorted, bear_sorted>>

\* main.py:289  the one call of send_document, the last statement of the
\* try: what it raises reaches main.py:291, and after it the cycle sleeps
Notify ==
    /\ pc = "notify"
    /\ \E delivered \in BOOLEAN :
          LET sent == send_document(delivered)
          IN  IF sent.raised
              THEN /\ Raise("notify")
                   /\ UNCHANGED emitted
              ELSE /\ emitted' = Append(emitted, sent.out)
                   /\ pc' = "sleep"
                   /\ UNCHANGED cycle_error
    /\ UNCHANGED <<cfg, gw, sideVars, symbols, tickers, pre_top, tasks, results, bull_all, bear_all,
                   bull_list, bear_list, oi_requests, bull_sorted, bear_sorted>>

\* main.py:294-295 and back to main.py:139
Sleep ==
    /\ pc = "sleep"
    /\ pc' = "instruments"
    /\ symbols' = <<>>
    /\ tickers' = <<>>
    /\ pre_top' = <<>>
    /\ tasks' = <<>>
    /\ results' = <<>>
    /\ bull_all' = <<>>
    /\ bear_all' = <<>>
    /\ bull_list' = <<>>
    /\ bear_list' = <<>>
    /\ oi_requests' = {}
    /\ bull_sorted' = <<>>
    /\ bear_sorted' = <<>>
    /\ emitted' = <<>>
    /\ cycle_error' = "none"
    /\ UNCHANGED <<cfg, gw, sideVars>>

Init ==
    /\ cfg \in LoopConfigs
    /\ gw = GwIdle
    /\ history_json = NoFile
    /\ gw_pool = <<>>
    /\ api = DefaultAPI
    /\ env = LoopEnv
    /\ last_report = <<>>
    /\ CycleStart

Next ==
    \/ GetInstruments
    \/ PrefilterStep(LoopTickers)
    \/ \E i \in DOMAIN tasks : LoadPairStep(i, LoopKlines, LoopIndicators)
    \/ Rank
    \/ \E i \in DOMAIN bull_list : EnrichBull(i)
    \/ \E i \in DOMAIN bear_list : EnrichBear(i)
    \/ FinalSort
    \/ WriteReport
    \/ AppendHistory
    \/ Notify
    \/ Sleep

Spec == Init /\ [][Next]_vars

\* the main thread and the pool threads keep running: a step that can be taken
\* is eventually taken
FairSpec == Spec /\ WF_vars(Next)

(***************************************************************************)
(* The evaluator alone: one call of load_pair, from the submission to its  *)
(* return, over every series length around the two minima and every sign   *)
(* pattern of the indicator tail.                                          *)
(***************************************************************************)
EvalConfigs ==
    { Config(1, 0, 1, tfs, tfs[1]) :
        tfs \in { <<"1W">>, <<"4H", "1W">>, <<"1W", "4H">>, <<"1D", "1M">>,
                  <<"4H", "1D", "1W">> } }

EvalKlines ==
    {Klines(FALSE, 0)} \cup {Klines(TRUE, n) : n \in {25, 29, 30, 35, 49, 50}}

EvalIndicators ==
    {Indicators(FALSE, 0, 0, 0, 0, 0, 0)}
    \cup {Indicators(TRUE, m, s, h, 1, 1, 100) : m \in {0, 1}, s \in {0, 1}, h \in {-1, 0, 1}}

EvalInit ==
    /\ cfg \in EvalConfigs
    /\ gw = GwIdle
    /\ pc = "evaluate"
    /\ symbols = <<SymA>>
    /\ tickers = <<>>
    /\ pre_top = <<SymA>>
    /\ tasks = Submit(pre_top)
    /\ results = <<>>
    /\ bull_all = <<>>
    /\ bear_all = <<>>
    /\ bull_list = <<>>
    /\ bear_list = <<>>
    /\ oi_requests = {}
    /\ bull_sorted = <<>>
    /\ bear_sorted = <<>>
    /\ emitted = <<>>
    /\ cycle_error = "none"
    /\ history_json = NoFile
    /\ gw_pool = <<>>
    /\ api = DefaultAPI
    /\ env = LoopEnv
    /\ last_report = <<>>

EvalNext == \E i \in DOMAIN tasks : LoadPairStep(i, EvalKlines, EvalIndicators)

EvalSpec == EvalInit /\ [][EvalNext]_vars

(***************************************************************************)
(* The prefilter alone: main.py:147-168 applied to a universe and a ticker *)
(* snapshot, over every count the configuration can ask for.               *)
(***************************************************************************)
PrefilterConfigs ==
    { Config(n, u, m, <<"4H", "1W">>, "4H") :
        n \in -1..MaxTopN, u \in {0, 1}, m \in 0..MaxMultiplier }

PrefilterUniverses == { <<SymA, SymB, SymC>>, <<SymC, SymA>>, <<>> }

\* prices of one ticker: ranges 2, 1, 1 (another fraction), an absent high,
\* a negative last, and a field that is no number
TickerPrices ==
    { <<3, 1, 1, TRUE>>, <<4, 2, 2, TRUE>>, <<2, 1, 1, TRUE>>,
      <<0, 1, 1, TRUE>>, <<2, 1, -1, TRUE>>, <<2, 1, 1, FALSE>> }

PricedTicker(sym, p) == Ticker(sym, p[1], p[2], p[3], p[4])

PrefilterSnapshots ==
    { << PricedTicker(SymA, a), PricedTicker(SymB, b), PricedTicker(SymC, c) >> :
        a \in TickerPrices, b \in TickerPrices, c \in TickerPrices }
    \cup { << PricedTicker(SymC, c), PricedTicker(SymAP, a), PricedTicker(SymA, a) >> :
             a \in TickerPrices, c \in TickerPrices }

PrefilterInit ==
    /\ cfg \in PrefilterConfigs
    /\ gw = GwIdle
    /\ pc = "prefilter"
    /\ symbols \in PrefilterUniverses
    /\ tickers = <<>>
    /\ pre_top = <<>>
    /\ tasks = <<>>
    /\ results = <<>>
    /\ bull_all = <<>>
    /\ bear_all = <<>>
    /\ bull_list = <<>>
    /\ bear_list = <<>>
    /\ oi_requests = {}
    /\ bull_sorted = <<>>
    /\ bear_sorted = <<>>
    /\ emitted = <<>>
    /\ cycle_error = "none"
    /\ history_json = NoFile
    /\ gw_pool = <<>>
    /\ api = DefaultAPI
    /\ env = LoopEnv
    /\ last_report = <<>>

PrefilterNext == PrefilterStep(PrefilterSnapshots)

PrefilterSpec == PrefilterInit /\ [][PrefilterNext]_vars

(***************************************************************************)
(* The split and the truncation alone: main.py:228-249 applied to a result *)
(* collection, over every count the configuration can ask for.             *)
(***************************************************************************)
RankConfigs == { Config(n, 0, 1, <<"4H", "1W">>, "4H") : n \in -1..MaxTopN }

RankUniverse == <<SymA, SymB, SymC, SymAP>>

\* what load_pair returned for an accepted symbol
Accepted(trend, atr) ==
    [common_trend |-> trend, atr_pct_map |-> <<atr, 1>>, rsi_map |-> <<1, 1>>,
     atr_sort_pct |-> atr]

\* the result collections of MaxAccepted symbols or fewer
RankResults ==
    UNION { { [i \in 1..n |-> [sym |-> RankUniverse[i], data |-> d[i]]] :
                d \in [1..n -> { Accepted(t, a) : t \in {"BULL", "BEAR"}, a \in 1..3 }] } :
            n \in 0..MaxAccepted }

RankInit ==
    /\ cfg \in RankConfigs
    /\ gw = GwIdle
    /\ pc = "evaluate"
    /\ symbols = RankUniverse
    /\ tickers = <<>>
    /\ pre_top = RankUniverse
    /\ results \in RankResults
    /\ tasks = [i \in DOMAIN pre_top |->
                  IF i \in DOMAIN results
                  THEN [NewTask EXCEPT !.st = "done", !.data = <<results[i].data>>]
                  ELSE [NewTask EXCEPT !.st = "done"]]
    /\ bull_all = <<>>
    /\ bear_all = <<>>
    /\ bull_list = <<>>
    /\ bear_list = <<>>
    /\ oi_requests = {}
    /\ bull_sorted = <<>>
    /\ bear_sorted = <<>>
    /\ emitted = <<>>
    /\ cycle_error = "none"
    /\ history_json = NoFile
    /\ gw_pool = <<>>
    /\ api = DefaultAPI
    /\ env = LoopEnv
    /\ last_report = <<>>

RankNext == Rank

RankSpec == RankInit /\ [][RankNext]_vars

(***************************************************************************)
(* The gateway, bybit_api.py:39-164.  gw is one call of a method under     *)
(* @retry(stop=stop_after_attempt(3), wait=wait_fixed(2)): the attempt     *)
(* number, the pages and items of the running attempt, how every finished  *)
(* attempt ended, and the log of the requests, pacing sleeps and backoff   *)
(* waits in the order they happened.                                       *)
(***************************************************************************)
GwMethods == {"get_instruments", "get_tickers", "get_klines", "get_open_interest"}

\* a response: net = FALSE is session.get raising (timeout, connection error);
\* more is a non-empty nextPageCursor
Response(net, status, retCode, more, body) ==
    [net |-> net, status |-> status, retCode |-> retCode, more |-> more, body |-> body]

\* bybit_api.py:39-46  _check: "ok", or the error it raises
Check(r) ==
    IF r.status # HTTP_OK THEN "http"
    ELSE IF r.retCode # 0 THEN "retcode"
    ELSE "ok"

Candle(ts, close, numeric) == [ts |-> ts, close |-> close, numeric |-> numeric]

TsLess(a, b) == a.ts < b.ts

\* the list as the provider sent it
SortKlines_ProviderOrder(lst) == lst

\* bybit_api.py:129
SortKlines(lst) ==
    StableSort(lst, {p \in PosPairs(lst) : TsLess(lst[p[1]], lst[p[2]])})

\* bybit_api.py:131-141  float() raises on a field that is no number
KlinesParse(lst) == \A i \in DOMAIN lst : lst[i].numeric

\* bybit_api.py:159-164  the value get_open_interest returns for a result list
OiResult(lst) ==
    IF lst = <<>> THEN OiOutcome(FALSE, TRUE, 0)
    ELSE IF ~lst[Len(lst)].numeric THEN OiOutcome(FALSE, TRUE, 0)
    ELSE OiOutcome(FALSE, FALSE, lst[Len(lst)].openInterest)

OiRow(v, numeric) == [openInterest |-> v, numeric |-> numeric]

\* the result lists the provider answers a method with
GwBodies(fn) ==
    CASE fn = "get_instruments" -> ProviderListings \cup LooseListings
      [] fn = "get_tickers" -> LoopTickers
      [] fn = "get_klines" ->
            { <<>>, <<Candle(3, 1, TRUE), Candle(1, 2, TRUE), Candle(2, 3, TRUE)>>,
              <<Candle(2, 1, TRUE), Candle(2, 2, TRUE), Candle(1, 3, TRUE)>>,
              <<Candle(1, 1, TRUE), Candle(2, 1, FALSE)>> }
      [] fn = "get_open_interest" ->
            { <<>>, <<OiRow(7, TRUE)>>, <<OiRow(0, TRUE)>>, <<OiRow(0, FALSE)>> }

GwStatuses == {HTTP_OK, 500}

GwRetCodes == {0, 10006}

GwResponses(fn) ==
    { Response(net, st, rc, more, body) :
        net \in BOOLEAN, st \in GwStatuses, rc \in GwRetCodes, more \in BOOLEAN,
        body \in GwBodies(fn) }

GwCalling(fn) ==
    [fn |-> fn, st |-> "calling", attempt |-> 1, page |-> 0, out |-> <<>>,
     outcomes |-> <<>>, log |-> <<>>, result |-> <<>>, body |-> <<>>]

\* how one request of the running attempt ends: "ok", or the error raised
\* before the method returns
RequestOutcome(fn, r) ==
    IF ~r.net THEN "network"
    ELSE IF Check(r) # "ok" THEN Check(r)
    ELSE IF fn = "get_klines" /\ ~KlinesParse(r.body) THEN "parse"
    ELSE "ok"

\* the value the method returns after a successful last request
GwValue(g, r) ==
    CASE g.fn = "get_instruments" -> g.out \o FilterInstruments("linear", r.body)
      [] g.fn = "get_tickers" -> r.body
      [] g.fn = "get_klines" -> SortKlines(r.body)
      [] g.fn = "get_open_interest" -> OiResult(r.body)

\* what the log gains when a request ends with an error: get_klines raises
\* on a field that is no number in the comprehension of bybit_api.py:131-141,
\* after the _sleep of line 130
FailureLog(g, kind) ==
    IF kind = "parse"
    THEN << <<"ok", g.attempt>>, <<"sleep", 0>>, <<"fail", g.attempt>> >>
    ELSE << <<"fail", g.attempt>> >>

\* no retry: the first error ends the call
AfterFailure_NoRetry(g, kind) ==
    [g EXCEPT !.outcomes = Append(@, kind),
              !.log = @ \o FailureLog(g, kind),
              !.page = 0, !.out = <<>>, !.st = "raised"]

\* tenacity: the attempt raised; stop_after_attempt ends the call with the
\* error, else wait_fixed and the method runs again from its first line
AfterFailure(g, kind) ==
    LET failed == [g EXCEPT !.outcomes = Append(@, kind),
                            !.log = @ \o FailureLog(g, kind),
                            !.page = 0, !.out = <<>>]
    IN  IF g.attempt >= STOP_AFTER_ATTEMPT
        THEN [failed EXCEPT !.st = "raised"]
        ELSE [failed EXCEPT !.attempt = @ + 1,
                            !.log = Append(@, <<"wait", WAIT_FIXED>>)]

\* bybit_api.py:90-93  a page with a cursor: _sleep and the next request
AfterPage(g, r) ==
    [g EXCEPT !.out = @ \o FilterInstruments("linear", r.body),
              !.page = @ + 1,
              !.log = @ \o << <<"ok", g.attempt>>, <<"sleep", 0>> >>]

\* a method that returns without its _sleep
AfterSuccess_NoSleep(g, r) ==
    [g EXCEPT !.st = "returned",
              !.outcomes = Append(@, "ok"),
              !.log = Append(@, <<"ok", g.attempt>>),
              !.result = << GwValue(g, r) >>,
              !.body = r.body,
              !.page = 0, !.out = <<>>]

\* bybit_api.py:96-97, 110-111, 130-141, 158-164  _sleep and return
AfterSuccess(g, r) ==
    [g EXCEPT !.st = "returned",
              !.outcomes = Append(@, "ok"),
              !.log = @ \o << <<"ok", g.attempt>>, <<"sleep", 0>> >>,
              !.result = << GwValue(g, r) >>,
              !.body = r.body,
              !.page = 0, !.out = <<>>]

\* a caller invokes a method of the gateway
GwCall(fn) ==
    /\ gw.st # "calling"
    /\ gw' = GwCalling(fn)
    /\ UNCHANGED <<cfg, loopVars, sideVars>>

\* one request of the running attempt fails
GwRequestFails ==
    /\ gw.st = "calling"
    /\ \E r \in GwResponses(gw.fn) :
          /\ RequestOutcome(gw.fn, r) # "ok"
          /\ gw' = AfterFailure(gw, RequestOutcome(gw.fn, r))
    /\ UNCHANGED <<cfg, loopVars, sideVars>>

\* bybit_api.py:66-93  a page of the listing that names a next page
GwNextPage ==
    /\ gw.st = "calling"
    /\ gw.fn = "get_instruments"
    /\ gw.page + 1 < MaxPages
    /\ \E r \in GwResponses(gw.fn) :
          /\ RequestOutcome(gw.fn, r) = "ok"
          /\ r.more
          /\ gw' = AfterPage(gw, r)
    /\ UNCHANGED <<cfg, loopVars, sideVars>>

\* the last request of the attempt succeeds and the method returns
GwReturns ==
    /\ gw.st = "calling"
    /\ \E r \in GwResponses(gw.fn) :
          /\ RequestOutcome(gw.fn, r) = "ok"
          /\ (gw.fn = "get_instruments" => ~r.more)
          /\ gw' = AfterSuccess(gw, r)
    /\ UNCHANGED <<cfg, loopVars, sideVars>>

GatewayInit ==
    /\ cfg = Config(1, 1, 1, <<"4H", "1W">>, "4H")
    /\ gw = GwIdle
    /\ pc = "instruments"
    /\ symbols = <<>>
    /\ tickers = <<>>
    /\ pre_top = <<>>
    /\ tasks = <<>>
    /\ results = <<>>
    /\ bull_all = <<>>
    /\ bear_all = <<>>
    /\ bull_list = <<>>
    /\ bear_list = <<>>
    /\ oi_requests = {}
    /\ bull_sorted = <<>>
    /\ bear_sorted = <<>>
    /\ emitted = <<>>
    /\ cycle_error = "none"
    /\ history_json = NoFile
    /\ gw_pool = <<>>
    /\ api = DefaultAPI
    /\ env = LoopEnv
    /\ last_report = <<>>

GatewayNext ==
    \/ \E fn \in GwMethods : GwCall(fn)
    \/ GwRequestFails
    \/ GwNextPage
    \/ GwReturns

GatewaySpec == GatewayInit /\ [][GatewayNext]_vars

(***************************************************************************)
(* The gateway built with any configured retry count and backoff:          *)
(* main.py:106-107 read MAX_RETRIES and RETRY_BACKOFF_SEC, main.py:131-137 *)
(* pass them to the constructor, and the methods run as in GatewaySpec.    *)
(***************************************************************************)
RetryInit ==
    /\ cfg = Config(1, 1, 1, <<"4H", "1W">>, "4H")
    /\ gw = GwIdle
    /\ CycleStart
    /\ history_json = NoFile
    /\ gw_pool = <<>>
    /\ \E k \in 1..MaxRetries, b \in 1..MaxBackoff : api = BybitAPI(k, b)
    /\ env = LoopEnv
    /\ last_report = <<>>

RetrySpec == RetryInit /\ [][GatewayNext]_vars

(***************************************************************************)
(* The start of main_loop: TIMEFRAMES and SORT_TF are read from the        *)
(* environment (main.py:112-113) before the first cycle.                   *)
(***************************************************************************)
\* tokens an operator may write between the commas of TIMEFRAMES
RawTokens ==
    { <<"1", "d">>, <<"1", "D">>, <<" ", "4", "h", " ">>, <<"1", "w">>, <<"5", "m">>,
      <<"1", "m", "o">>, <<"1", "m">>, <<"1", "M">>, <<"7", "h">>, <<"x">>,
      <<" ">>, <<>> }

RECURSIVE TokenLists(_)
TokenLists(n) ==
    IF n = 0 THEN { <<>> }
    ELSE TokenLists(n - 1)
         \cup { Append(l, t) : l \in { x \in TokenLists(n - 1) : Len(x) = n - 1 },
                               t \in RawTokens }

\* values of SORT_TF
SortTfValues == { <<>>, << <<"1", "d">> >>, << <<" ", "4", "H">> >>, << <<"x">> >> }

Environments ==
    { Env(<<>>, st, <<>>) : st \in SortTfValues }
    \cup { Env(<< join(",", l) >>, st, l) : l \in TokenLists(MaxTokens), st \in SortTfValues }

\* main.py:112-113
ReadConfig ==
    /\ pc = "config"
    /\ LET env_val == IF env.TIMEFRAMES = <<>>
                      THEN join(",", << <<"4", "H">>, <<"1", "D">>, <<"1", "W">> >>)
                      ELSE env.TIMEFRAMES[1]
           TIMEFRAMES == parse_timeframes(env_val)
           s == IF env.SORT_TF = <<>>
                THEN TIMEFRAMES[1]
                ELSE Str(upper(strip(env.SORT_TF[1])))
       IN  cfg' = [cfg EXCEPT !.TIMEFRAMES = TIMEFRAMES,
                              !.SORT_TF = check_sort_tf(s, TIMEFRAMES)]
    /\ pc' = "instruments"
    /\ UNCHANGED <<gw, sideVars, symbols, tickers, pre_top, tasks, results, bull_all, bear_all,
                   bull_list, bear_list, oi_requests, bull_sorted, bear_sorted, emitted,
                   cycle_error>>

ConfigInit ==
    /\ cfg = Config(1, 1, 1, <<>>, "")
    /\ gw = GwIdle
    /\ history_json = NoFile
    /\ gw_pool = <<>>
    /\ api = DefaultAPI
    /\ env \in Environments
    /\ last_report = <<>>
    /\ pc = "config"
    /\ symbols = <<>>
    /\ tickers = <<>>
    /\ pre_top = <<>>
    /\ tasks = <<>>
    /\ results = <<>>
    /\ bull_all = <<>>
    /\ bear_all = <<>>
    /\ bull_list = <<>>
    /\ bear_list = <<>>
    /\ oi_requests = {}
    /\ bull_sorted = <<>>
    /\ bear_sorted = <<>>
    /\ emitted = <<>>
    /\ cycle_error = "none"

ConfigNext == ReadConfig

ConfigSpec == ConfigInit /\ [][ConfigNext]_vars

(***************************************************************************)
(* The enrichment through the gateway: main.py:251-263 with every call of  *)
(* get_open_interest followed in gw, one add_oi at a time, from the state  *)
(* the truncation leaves.                                                  *)
(***************************************************************************)
EnrichResults == {r \in RankResults : Len(r) <= 2}

\* main.py:255-257  what add_oi sees of a finished call of get_open_interest
OiSeen(g) == IF g.st = "raised" THEN OiOutcome(TRUE, FALSE, 0) ELSE g.result[1]

\* the item add_oi runs on next: ex.map takes bull_list, then bear_list, in order
NextItem ==
    IF Unenriched(bull_list) # {}
    THEN <<"bull", CHOOSE i \in Unenriched(bull_list) :
                      \A j \in Unenriched(bull_list) : i <= j>>
    ELSE <<"bear", CHOOSE i \in Unenriched(bear_list) :
                      \A j \in Unenriched(bear_list) : i <= j>>

\* main.py:253-255  add_oi calls get_open_interest
OiCall ==
    /\ pc = "enrich"
    /\ gw.st = "idle"
    /\ Unenriched(bull_list) \cup Unenriched(bear_list) # {}
    /\ gw' = GwCalling("get_open_interest")
    /\ oi_requests' = oi_requests \cup
          {RequestSymbol(IF NextItem[1] = "bull" THEN bull_list[NextItem[2]].symbol
                         ELSE bear_list[NextItem[2]].symbol)}
    /\ UNCHANGED <<cfg, sideVars, pc, symbols, tickers, pre_top, tasks, results,
                   bull_all, bear_all, bull_list, bear_list, bull_sorted, bear_sorted,
                   emitted, cycle_error>>

\* main.py:255-259  the call returned or raised: add_oi stores the value
OiStore ==
    /\ pc = "enrich"
    /\ gw.fn = "get_open_interest"
    /\ gw.st \in {"returned", "raised"}
    /\ IF NextItem[1] = "bull"
       THEN /\ bull_list' = AddOi(bull_list, NextItem[2], OiSeen(gw))
            /\ UNCHANGED bear_list
       ELSE /\ bear_list' = AddOi(bear_list, NextItem[2], OiSeen(gw))
            /\ UNCHANGED bull_list
    /\ gw' = GwIdle
    /\ UNCHANGED <<cfg, sideVars, pc, symbols, tickers, pre_top, tasks, results,
                   bull_all, bear_all, oi_requests, bull_sorted, bear_sorted,
                   emitted, cycle_error>>

EnrichInit ==
    /\ cfg = Config(MaxTopN, 0, 1, <<"4H", "1W">>, "4H")
    /\ gw = GwIdle
    /\ history_json = NoFile
    /\ gw_pool = <<>>
    /\ api = DefaultAPI
    /\ env = LoopEnv
    /\ last_report = <<>>
    /\ pc = "enrich"
    /\ symbols = RankUniverse
    /\ tickers = <<>>
    /\ pre_top = RankUniverse
    /\ tasks = <<>>
    /\ results \in EnrichResults
    /\ bull_all = GroupOf(results, "BULL")
    /\ bear_all = GroupOf(results, "BEAR")
    /\ bull_list = TopN(bull_all, cfg.TOP_N)
    /\ bear_list = TopN(bear_all, cfg.TOP_N)
    /\ oi_requests = {}
    /\ bull_sorted = <<>>
    /\ bear_sorted = <<>>
    /\ emitted = <<>>
    /\ cycle_error = "none"

EnrichNext ==
    \/ OiCall
    \/ GwRequestFails
    \/ GwReturns
    \/ OiStore
    \/ (gw.st = "idle" /\ FinalSort)

EnrichSpec == EnrichInit /\ [][EnrichNext]_vars

(***************************************************************************)
(* The gateway under the pools.  The main thread calls get_instruments and *)
(* get_tickers in gw while no pool runs; the threads of a pool (main.py:   *)
(* 221, 261) call get_klines, or get_open_interest, each in its own entry  *)
(* of gw_pool.  Every call runs _check, _sleep and the retry decorator in  *)
(* the thread that made it.                                                *)
(***************************************************************************)
PoolMethods == {"get_klines", "get_open_interest"}

\* what a request of a pool thread is answered with
PoolResponses(fn) ==
    {r \in GwResponses(fn) : r.net /\ r.retCode = 0 /\ ~r.more}

PoolIdle == \A w \in DOMAIN gw_pool : gw_pool[w] = GwIdle

\* main.py:222, 262  a thread of the pool takes a call
PoolCall(w, fn) ==
    /\ gw = GwIdle
    /\ gw_pool[w].st # "calling"
    /\ \A v \in DOMAIN gw_pool : gw_pool[v] # GwIdle => gw_pool[v].fn = fn
    /\ gw_pool' = [gw_pool EXCEPT ![w] = GwCalling(fn)]
    /\ UNCHANGED <<cfg, loopVars, gw, history_json, api, env, last_report>>

\* one request of the thread's running attempt fails
PoolRequestFails(w) ==
    /\ gw_pool[w].st = "calling"
    /\ \E r \in PoolResponses(gw_pool[w].fn) :
          /\ RequestOutcome(gw_pool[w].fn, r) # "ok"
          /\ gw_pool' = [gw_pool EXCEPT
                           ![w] = AfterFailure(@, RequestOutcome(gw_pool[w].fn, r))]
    /\ UNCHANGED <<cfg, loopVars, gw, history_json, api, env, last_report>>

\* the request of the thread's attempt succeeds and the method returns
PoolReturns(w) ==
    /\ gw_pool[w].st = "calling"
    /\ \E r \in PoolResponses(gw_pool[w].fn) :
          /\ RequestOutcome(gw_pool[w].fn, r) = "ok"
          /\ gw_pool' = [gw_pool EXCEPT ![w] = AfterSuccess(@, r)]
    /\ UNCHANGED <<cfg, loopVars, gw, history_json, api, env, last_report>>

\* main.py:221-226, 261-263  the with block ends once no thread is in a call
PoolShutdown ==
    /\ ~PoolIdle
    /\ \A w \in DOMAIN gw_pool : gw_pool[w].st # "calling"
    /\ gw_pool' = [w \in DOMAIN gw_pool |-> GwIdle]
    /\ UNCHANGED <<cfg, loopVars, gw, history_json, api, env, last_report>>

\* main.py:143, 149  the main thread calls the gateway, no pool running
MainCall(fn) ==
    /\ PoolIdle
    /\ gw = GwIdle
    /\ GwCall(fn)

\* the main thread has its value, or the error
MainDone ==
    /\ gw.st \in {"returned", "raised"}
    /\ gw' = GwIdle
    /\ UNCHANGED <<cfg, loopVars, sideVars>>

PoolInit ==
    /\ cfg = Config(1, 1, 1, <<"4H", "1W">>, "4H")
    /\ gw = GwIdle
    /\ history_json = NoFile
    /\ gw_pool = [w \in 1..WORKERS |-> GwIdle]
    /\ api = DefaultAPI
    /\ env = LoopEnv
    /\ last_report = <<>>
    /\ CycleStart

PoolNext ==
    \/ \E fn \in {"get_instruments", "get_tickers"} : MainCall(fn)
    \/ GwRequestFails
    \/ GwNextPage
    \/ GwReturns
    \/ MainDone
    \/ \E w \in DOMAIN gw_pool, fn \in PoolMethods : PoolCall(w, fn)
    \/ \E w \in DOMAIN gw_pool : PoolRequestFails(w)
    \/ \E w \in DOMAIN gw_pool : PoolReturns(w)
    \/ PoolShutdown

PoolSpec == PoolInit /\ [][PoolNext]_vars

(***************************************************************************)
(* The history log over the cycles: main.py:286 calling append_history of  *)
(* utils.py on the file, cycle after cycle, from every kind of file the    *)
(* first cycle can find.  The stages of a cycle before the history step    *)
(* are one step here.                                                      *)
(***************************************************************************)
\* main.py:286  the payload of the cycle
HistoryPayload(bull, bear, c) ==
    [bull |-> bull, bear |-> bear, timeframes |-> c.TIMEFRAMES, sort_tf |-> c.SORT_TF]

\* the lists a cycle hands to the report and the history
HistoryLists ==
    { <<>>, <<[BaseRecord(SymA, Accepted("BULL", 1)) EXCEPT !.oi = <<0>>]>> }

\* the files the first cycle can find
HistoryFiles ==
    { NoFile, HistoryFile("invalid", <<>>), HistoryFile("object", <<>>),
      HistoryFile("array", <<>>),
      HistoryFile("array",
                  << HistoryRecord(0, HistoryPayload(<<>>, <<>>,
                                                     Config(1, 1, 1, <<"4H", "1W">>, "4H"))) >>) }

\* the clock of ts_now_iso
HistoryClock == 1..2

\* main.py:143-283  a cycle reaches the history step, its report written,
\* or fails before it
CycleToHistory ==
    /\ pc = "instruments"
    /\ Len(history_json.records) < MaxHistory
    /\ \/ /\ bull_sorted' \in HistoryLists
          /\ bear_sorted' = <<>>
          /\ emitted' = <<"report">>
          /\ pc' = "history"
          /\ UNCHANGED cycle_error
       \/ /\ Raise("instruments")
          /\ UNCHANGED <<bull_sorted, bear_sorted, emitted>>
    /\ UNCHANGED <<cfg, gw, sideVars, symbols, tickers, pre_top, tasks, results,
                   bull_all, bear_all, bull_list, bear_list, oi_requests>>

\* main.py:286  append_history on the file; what it raises reaches main.py:291
AppendHistoryFile ==
    /\ pc = "history"
    /\ \E ts \in HistoryClock :
          LET done == append_history(history_json,
                                     HistoryRecord(ts, HistoryPayload(bull_sorted,
                                                                      bear_sorted, cfg)))
          IN  /\ history_json' = done.file
              /\ IF done.raised
                 THEN Raise("history") /\ UNCHANGED emitted
                 ELSE /\ emitted' = Append(emitted, "history")
                      /\ pc' = "notify"
                      /\ UNCHANGED cycle_error
    /\ UNCHANGED <<cfg, gw, gw_pool, api, env, last_report, symbols, tickers, pre_top,
                   tasks, results, bull_all,
                   bear_all, bull_list, bear_list, oi_requests, bull_sorted, bear_sorted>>

HistoryInit ==
    /\ cfg = Config(1, 1, 1, <<"4H", "1W">>, "4H")
    /\ gw = GwIdle
    /\ history_json \in HistoryFiles
    /\ gw_pool = <<>>
    /\ api = DefaultAPI
    /\ env = LoopEnv
    /\ last_report = <<>>
    /\ CycleStart

HistoryNext ==
    \/ CycleToHistory
    \/ AppendHistoryFile
    \/ Notify
    \/ Sleep

HistorySpec == HistoryInit /\ [][HistoryNext]_vars

(***************************************************************************)
(* The outputs of the cycles: the final sort (main.py:265-273), the report *)
(* file (main.py:276-283, reporter.py), the history record (main.py:286)   *)
(* and the notification (main.py:289), cycle after cycle, on the two       *)
(* files.  The stages up to the enrichment are one step here: they hand    *)
(* over the two enriched lists or raise.                                   *)
(***************************************************************************)
\* a record of bull_list or bear_list after add_oi
Enriched(sym, atr, rsis, oi) ==
    [BaseRecord(sym, [atr_sort_pct |-> atr, rsi_map |-> rsis]) EXCEPT !.oi = <<oi>>]

\* bull_list as main.py:247 and 262 leave it: in descending order of atr_pct
OutputBulls ==
    { <<>>,
      <<Enriched(SymA, 2, <<1, 1>>, 0), Enriched(SymB, 1, <<2, 2>>, 7)>>,
      <<Enriched(SymA, 2, <<2, 2>>, 0), Enriched(SymB, 1, <<1, 1>>, 0)>>,
      <<Enriched(SymA, 1, <<1, 1>>, 7)>> }

\* bear_list as main.py:248 and 263 leave it
OutputBears ==
    { <<>>,
      <<Enriched(SymC, 2, <<1, 2>>, 0), Enriched(SymAP, 2, <<2, 1>>, 0)>> }

\* the stages before the outputs whose error reaches main.py:291
StagesBeforeOutput == {"instruments", "tickers", "evaluate"}

\* main.py:143-263
CycleToEnriched ==
    /\ pc = "instruments"
    /\ Len(history_json.records) < MaxHistory
    /\ \/ /\ bull_list' \in OutputBulls
          /\ bear_list' \in OutputBears
          /\ pc' = "enrich"
          /\ UNCHANGED cycle_error
       \/ /\ \E stage \in StagesBeforeOutput : Raise(stage)
          /\ UNCHANGED <<bull_list, bear_list>>
    /\ UNCHANGED <<cfg, gw, sideVars, symbols, tickers, pre_top, tasks, results,
                   bull_all, bear_all, oi_requests, bull_sorted, bear_sorted, emitted>>

\* the report written and the history step left out
WriteReportFile_SkipsHistory ==
    /\ pc = "report"
    /\ last_report' = << build_report_txt(bull_sorted, bear_sorted,
                                          cfg.TIMEFRAMES, cfg.SORT_TF) >>
    /\ emitted' = Append(emitted, "report")
    /\ pc' = "notify"
    /\ UNCHANGED <<cfg, gw, history_json, gw_pool, api, env, symbols, tickers, pre_top,
                   tasks, results, bull_all, bear_all, bull_list, bear_list, oi_requests,
                   bull_sorted, bear_sorted, cycle_error>>

\* main.py:276-283  build_report_txt and write_report_file (reporter.py:70-74);
\* an error of makedirs or open reaches main.py:291 with the file as it was
WriteReportFile ==
    /\ pc = "report"
    /\ \/ /\ last_report' = << build_report_txt(bull_sorted, bear_sorted,
                                                cfg.TIMEFRAMES, cfg.SORT_TF) >>
          /\ emitted' = Append(emitted, "report")
          /\ pc' = "history"
          /\ UNCHANGED cycle_error
       \/ /\ Raise("report")
          /\ UNCHANGED <<last_report, emitted>>
    /\ UNCHANGED <<cfg, gw, history_json, gw_pool, api, env, symbols, tickers, pre_top,
                   tasks, results, bull_all, bear_all, bull_list, bear_list, oi_requests,
                   bull_sorted, bear_sorted>>

OutputInit ==
    /\ cfg = Config(MaxTopN, 1, 1, <<"4H", "1W">>, "4H")
    /\ gw = GwIdle
    /\ history_json \in {NoFile, HistoryFile("array", <<>>)}
    /\ gw_pool = <<>>
    /\ api = DefaultAPI
    /\ env = LoopEnv
    /\ last_report = <<>>
    /\ CycleStart

OutputNext ==
    \/ CycleToEnriched
    \/ FinalSort
    \/ WriteReportFile
    \/ AppendHistoryFile
    \/ Notify
    \/ Sleep

OutputSpec == OutputInit /\ [][OutputNext]_vars

(***************************************************************************)
(* Properties.                                                             *)
(***************************************************************************)
\* the result collection holds an entry for the symbol of call i
InResults(i) == \E k \in DOMAIN results : results[k].sym = pre_top[i]

\* the minimum number of bars the specification gives a timeframe
BarsNeeded(tf) == IF tf \in {"1W", "1M"} THEN 30 ELSE 50

\* C1: a symbol is in the result collection exactly when its call has finished,
\* every configured timeframe produced a classification (its series passed the
\* length guard and nothing raised) and all classifications are the same one of
\* BULL and BEAR; common_trend is then that classification.
C1_AcceptedIffUnanimous ==
    \A i \in DOMAIN tasks :
        LET t == tasks[i]
            n == Len(cfg.TIMEFRAMES)
            allPassed == /\ t.st = "done"
                         /\ ~t.raised
                         /\ Len(t.lens) = n
                         /\ \A k \in 1..n : t.lens[k] >= BarsNeeded(cfg.TIMEFRAMES[k])
            unanimous(tr) == Len(t.trends) = n /\ \A k \in 1..n : t.trends[k] = tr
        IN  /\ InResults(i) <=> (allPassed /\ (unanimous("BULL") \/ unanimous("BEAR")))
            /\ \A k \in DOMAIN results :
                  results[k].sym = pre_top[i] =>
                      unanimous(results[k].data.common_trend)

\* three timeframes all BULL: accepted with common_trend BULL
C1_Witness ==
    /\ Len(cfg.TIMEFRAMES) = 3
    /\ \E k \in DOMAIN results : results[k].data.common_trend = "BULL"
    /\ tasks[1].trends = <<"BULL", "BULL", "BULL">>

\* C8: a series shorter than the minimum of its timeframe (30 for 1W and 1M, 50
\* otherwise) ends the call at once: no record, nothing in the results, and no
\* further series fetched; a series of at least the minimum passes the guard
\* (a classification is made of it, unless computing it raised).
C8_LengthGuard ==
    \A i \in DOMAIN tasks :
        LET t == tasks[i]
        IN  \A k \in DOMAIN t.lens :
               IF t.lens[k] < BarsNeeded(cfg.TIMEFRAMES[k])
               THEN /\ t.st = "done"
                    /\ t.data = <<>>
                    /\ ~InResults(i)
                    /\ t.fetched = k
                    /\ Len(t.lens) = k
               ELSE \/ Len(t.trends) >= k
                    \/ (t.raised /\ k = Len(t.lens))

\* a weekly series of 25 bars: the call is over, the 4H series was never fetched
C8_Witness ==
    /\ cfg.TIMEFRAMES = <<"1W", "4H">>
    /\ tasks[1].lens = <<25>>
    /\ tasks[1].st = "done"
    /\ tasks[1].fetched = 1
    /\ results = <<>>


\* C3: the loop never ends on a cycle failure: every cycle reaches the sleep of
\* main.py:295, whether it completed or an error of any stage reached the outer
\* except, and after every sleep a new cycle begins.
C3_NextCycleAlwaysBegins ==
    /\ []<>(pc = "sleep")
    /\ (pc = "sleep") ~> (pc = "instruments" /\ cycle_error = "none")

\* a cycle whose ticker fetch raised after its retries is asleep, about to start anew
C3_Witness == pc = "sleep" /\ cycle_error = "tickers"

\* a step of the evaluation stage
C2_Step ==
    pc = "evaluate" =>
        /\ cycle_error' = "none"
        /\ pc' \in {"evaluate", "enrich"}
        /\ pc' = "enrich" => \A i \in DOMAIN tasks : tasks[i].st = "done"
        /\ pc' = "evaluate" =>
              \A i \in DOMAIN tasks' :
                  tasks'[i].raised =>
                      /\ tasks'[i].st = "done"
                      /\ tasks'[i].data = <<>>
                      /\ \A k \in DOMAIN results' : results'[k].sym # pre_top'[i]

\* C2: an error raised while one symbol is evaluated never becomes an error of
\* the cycle: the symbol's call ends with no record, the stage is left only
\* when every call of the cycle has finished, and it is left for ranking with
\* no cycle error.
C2_SymbolErrorsContained == [][C2_Step]_vars

\* one call has raised, the other has produced a record, and ranking is next
C2_Witness ==
    /\ pc = "evaluate"
    /\ Len(tasks) = 2
    /\ tasks[1].raised
    /\ tasks[2].st = "done"
    /\ tasks[2].data # <<>>
    /\ Len(results) = 1

\* the events of a cycle, as steps
C5_Step ==
    /\ (\E i \in DOMAIN tasks \cap DOMAIN tasks' :
            tasks[i].st = "pending" /\ tasks'[i].st # "pending")
          => (pc = "evaluate" /\ pre_top' = pre_top /\ DOMAIN tasks = DOMAIN pre_top)
    /\ (pc # "sleep" /\ (\/ bull_all' # bull_all
                         \/ bear_all' # bear_all
                         \/ (pc' = "enrich" /\ pc # "enrich")))
          => (pc = "evaluate" /\ \A i \in DOMAIN tasks : tasks[i].st = "done")
    /\ (oi_requests' # oi_requests /\ pc # "sleep")
          => (pc = "enrich" /\ bull_all' = bull_all /\ bear_all' = bear_all
              /\ Len(bull_list') = Len(bull_list) /\ Len(bear_list') = Len(bear_list))
    /\ (pc' = "report" /\ pc # "report")
          => (\A i \in DOMAIN bull_list : bull_list[i].oi # <<>>)
             /\ (\A i \in DOMAIN bear_list : bear_list[i].oi # <<>>)

\* C5: within a cycle no call of load_pair starts before the prefilter has set
\* the whole of pre_top; the split and the truncation happen only once every
\* call has finished; an open-interest request is issued only after both lists
\* were truncated; the report stage is entered only once every record of both
\* lists is enriched.
C5_StagesInOrder == [][C5_Step]_vars

\* a cycle of three symbols that went through every stage up to the report
C5_Witness ==
    /\ pc = "report"
    /\ Len(pre_top) = 3
    /\ Len(bull_list) + Len(bear_list) = 2
    /\ Cardinality(oi_requests) = 2

\* C6: an open-interest request is issued only for a symbol whose record is in
\* bull_list or bear_list after the truncation, never for a symbol that
\* load_pair rejected or that the truncation dropped; so, for a TOP_N that is
\* a count (TOP_N >= 0), at most 2 x TOP_N records are enriched in a cycle.
C6_OiOnlyForSurvivors ==
    /\ oi_requests \subseteq
          {bull_list[i].sym : i \in DOMAIN bull_list}
          \cup {bear_list[i].sym : i \in DOMAIN bear_list}
    /\ cfg.TOP_N >= 0 =>
          Cardinality({i \in DOMAIN bull_list : bull_list[i].oi # <<>>})
            + Cardinality({i \in DOMAIN bear_list : bear_list[i].oi # <<>>})
            <= 2 * cfg.TOP_N

\* the records of a group that the truncation dropped
Dropped(all, kept) ==
    {i \in DOMAIN all : \A k \in DOMAIN kept : kept[k].sym # all[i].sym}

\* a truncated list holds count records of its group, each of them once, and
\* none of them has a smaller atr_pct than a record that was dropped
KeepsTop(all, kept, count) ==
    /\ Len(kept) = count
    /\ \A k \in DOMAIN kept : \E i \in DOMAIN all : all[i] = kept[k]
    /\ \A j, k \in DOMAIN kept : j # k => kept[j].sym # kept[k].sym
    /\ \A k \in DOMAIN kept : \A i \in Dropped(all, kept) :
          kept[k].atr_pct >= all[i].atr_pct

\* C7 as stated: for any configured TOP_N each truncated list has exactly
\* min(TOP_N, size of its group) records, and no kept record has a smaller
\* atr_pct than a dropped record of the group.
C7_TruncatedForAnyTopN ==
    pc = "enrich" =>
        /\ KeepsTop(bull_all, bull_list, Min(cfg.TOP_N, Len(bull_all)))
        /\ KeepsTop(bear_all, bear_list, Min(cfg.TOP_N, Len(bear_all)))

\* C7: for a TOP_N that is not negative each truncated list has exactly
\* min(TOP_N, size of its group) records, and no kept record has a smaller
\* atr_pct than a dropped record of the group.
C7_TruncatedToTopN ==
    (pc = "enrich" /\ cfg.TOP_N >= 0) =>
        /\ KeepsTop(bull_all, bull_list, Min(cfg.TOP_N, Len(bull_all)))
        /\ KeepsTop(bear_all, bear_list, Min(cfg.TOP_N, Len(bear_all)))

\* three BULL records, the largest atr_pct last, truncated to one
C7_Witness ==
    /\ pc = "enrich"
    /\ cfg.TOP_N = 1
    /\ Len(bull_all) = 3
    /\ bull_all[1].atr_pct < bull_all[3].atr_pct
    /\ bull_all[2].atr_pct < bull_all[3].atr_pct
    /\ Len(bull_list) = 1
    /\ bull_list[1].sym = bull_all[3].sym

\* the universe symbols with a ticker whose last, high and low are positive
Eligible ==
    {sym \in Range(symbols) :
        \E i \in DOMAIN tickers :
            /\ tickers[i].symbol = sym
            /\ tickers[i].numeric
            /\ tickers[i].last > 0 /\ tickers[i].high > 0 /\ tickers[i].low > 0}

TickerOf(sym) == tickers[CHOOSE i \in DOMAIN tickers : tickers[i].symbol = sym]

\* (high - low) / last of a is at least that of b
RangeAtLeast(a, b) ==
    (TickerOf(a).high - TickerOf(a).low) * TickerOf(b).last
        >= (TickerOf(b).high - TickerOf(b).low) * TickerOf(a).last

\* pre_top is the first count entries of the eligible symbols in descending
\* order of range
FirstByRange(count) ==
    /\ Len(pre_top) = Min(count, Cardinality(Eligible))
    /\ Range(pre_top) \subseteq Eligible
    /\ Range(pre_top) \subseteq Range(symbols)
    /\ \A i, j \in DOMAIN pre_top : i < j =>
          pre_top[i] # pre_top[j] /\ RangeAtLeast(pre_top[i], pre_top[j])
    /\ \A i \in DOMAIN pre_top : \A sym \in Eligible \ Range(pre_top) :
          RangeAtLeast(pre_top[i], sym)

\* C9 as stated: with the prefilter enabled pre_top is the first
\* max(TOP_N x multiplier, TOP_N) entries of the universe symbols with a
\* usable ticker in descending order of (high - low) / last, a subset of the
\* universe; with the prefilter disabled pre_top is the universe.
C9_PrefilterForAnyCount ==
    pc = "evaluate" =>
        IF cfg.USE_TICKERS_PREFILTER # 0
        THEN FirstByRange(Max(cfg.TOP_N * cfg.PREFILTER_MULTIPLIER, cfg.TOP_N))
        ELSE pre_top = symbols

\* C9: the same, for a count max(TOP_N x multiplier, TOP_N) that is not
\* negative.
C9_PrefilterTopByRange ==
    pc = "evaluate" =>
        IF cfg.USE_TICKERS_PREFILTER # 0
        THEN Max(cfg.TOP_N * cfg.PREFILTER_MULTIPLIER, cfg.TOP_N) >= 0 =>
                FirstByRange(Max(cfg.TOP_N * cfg.PREFILTER_MULTIPLIER, cfg.TOP_N))
        ELSE pre_top = symbols

\* three eligible symbols, the count 1 x 2, and the symbol of the smallest
\* range, first in the universe, left out
C9_Witness ==
    /\ pc = "evaluate"
    /\ cfg.USE_TICKERS_PREFILTER # 0
    /\ cfg.TOP_N = 1
    /\ cfg.PREFILTER_MULTIPLIER = 2
    /\ Cardinality(Eligible) = 3
    /\ Len(pre_top) = 2
    /\ symbols[1] \notin Range(pre_top)
    /\ ~RangeAtLeast(symbols[1], pre_top[2])

\* the three methods of C4
Retried == {"get_instruments", "get_tickers", "get_klines"}

\* C4: a call of get_instruments, get_tickers or get_klines runs again after
\* a failed attempt, a wait of the fixed backoff between the two; it returns
\* at its first successful attempt, its result set and no attempt after it;
\* after the fixed number of failed attempts in a row it raises.
C4_RetryThenPropagate ==
    gw.fn \in Retried =>
        /\ Len(gw.outcomes) <= STOP_AFTER_ATTEMPT
        /\ \A i \in DOMAIN gw.outcomes :
              gw.outcomes[i] = "ok" => (i = Len(gw.outcomes) /\ gw.st = "returned")
        /\ gw.st = "calling" =>
              (gw.attempt = Len(gw.outcomes) + 1 /\ gw.attempt <= STOP_AFTER_ATTEMPT)
        /\ gw.st = "returned" =>
              (gw.outcomes[Len(gw.outcomes)] = "ok" /\ Len(gw.result) = 1)
        /\ gw.st = "raised" =>
              (Len(gw.outcomes) = STOP_AFTER_ATTEMPT /\ gw.result = <<>>)
        /\ \A i \in DOMAIN gw.log :
              gw.log[i][1] = "fail" =>
                  IF gw.log[i][2] < STOP_AFTER_ATTEMPT
                  THEN i < Len(gw.log) /\ gw.log[i + 1] = <<"wait", WAIT_FIXED>>
                  ELSE i = Len(gw.log) /\ gw.st = "raised"

\* get_klines returns at its third attempt, after an HTTP error and a
\* provider error
C4_Witness ==
    /\ gw.fn = "get_klines"
    /\ gw.st = "returned"
    /\ gw.outcomes = <<"http", "retcode", "ok">>

\* C10: get_open_interest never raises to its caller: whatever the failure,
\* the call ends by returning, and after a failure it returns None.
C10_OpenInterestNeverRaises ==
    gw.fn = "get_open_interest" =>
        /\ gw.st # "raised"
        /\ gw.st = "returned" => ~gw.result[1].raised

\* the fields of item i that add_oi leaves alone
SameRecord(a, b) ==
    a.sym = b.sym /\ a.symbol = b.symbol /\ a.atr_pct = b.atr_pct /\ a.rsi = b.rsi

\* a step of the enrichment stage on one list
C11_ListStep(list, list2) ==
    /\ Len(list2) = Len(list)
    /\ \A i \in DOMAIN list :
          /\ SameRecord(list[i], list2[i])
          /\ list[i].oi # <<>> => list2[i].oi = list[i].oi
          /\ (list[i].oi = <<>> /\ list2[i].oi # <<>>) =>
                /\ gw.fn = "get_open_interest"
                /\ Len(list2[i].oi) = 1
                /\ list2[i].oi[1] \in Nat
                /\ (gw.st = "raised" \/ gw.result[1].none) => list2[i].oi = <<0>>

C11_Step ==
    pc = "enrich" =>
        /\ cycle_error' = "none"
        /\ pc' \in {"enrich", "report"}
        /\ C11_ListStep(bull_list, bull_list')
        /\ C11_ListStep(bear_list, bear_list')
        /\ pc' = "report" =>
              /\ \A i \in DOMAIN bull_list : Len(bull_list[i].oi) = 1
              /\ \A i \in DOMAIN bear_list : Len(bear_list[i].oi) = 1

\* C11: a failed call of get_open_interest for a record of a truncated list
\* never becomes an error of the cycle and never removes the record: add_oi
\* stores 0, every record keeps its place and its other fields, and when the
\* stage is left every record of both lists holds a number as its oi.
C11_FailedFetchStoresZero == [][C11_Step]_vars

\* the call for the first BULL record raised after its retries and 0 was
\* stored; the call for the second record has raised as well
C11_Witness ==
    /\ pc = "enrich"
    /\ Len(bull_list) = 2
    /\ bull_list[1].oi = <<0>>
    /\ bull_list[2].oi = <<>>
    /\ gw.fn = "get_open_interest"
    /\ gw.st = "raised"

\* in the log of a call every request that succeeded is followed at once by
\* the pacing sleep
Paced(g) ==
    g.st # "idle" =>
        /\ \A i \in DOMAIN g.log :
              g.log[i][1] = "ok" => (i < Len(g.log) /\ g.log[i + 1][1] = "sleep")
        /\ g.st = "returned" => g.log[Len(g.log)][1] = "sleep"

C13_CorruptLogStartsFresh ==
    [][(pc = "history" /\ history_json.kind \in {"invalid", "object"}) =>
          /\ cycle_error' = "none"
          /\ pc' = "notify"
          /\ history_json'.kind = "array"
          /\ Len(history_json'.records) = 1
          /\ history_json'.records[1].payload
                = HistoryPayload(bull_sorted, bear_sorted, cfg)]_vars

\* a step of the cycles on the history log
C20_Step ==
    /\ history_json' # history_json =>
          /\ pc = "history"
          /\ \A i \in DOMAIN emitted : emitted[i] # "history"
          /\ emitted' = Append(emitted, "history")
    /\ (pc = "history" /\ history_json.kind = "array") =>
          /\ cycle_error' = "none"
          /\ history_json'.kind = "array"
          /\ Len(history_json'.records) = Len(history_json.records) + 1
          /\ \A i \in DOMAIN history_json.records :
                history_json'.records[i] = history_json.records[i]
          /\ history_json'.records[Len(history_json'.records)].payload
                = HistoryPayload(bull_sorted, bear_sorted, cfg)

\* C20: the history log only grows, by one record a cycle: a cycle that
\* reaches the history step with a file holding an array leaves the array it
\* found followed by one new record, its earlier records in place and as they
\* were; nothing else writes the file and no cycle writes it twice.
C20_AppendOnlyOnePerCycle == [][C20_Step]_vars

\* the second cycle has appended its record after the record of the first
C20_Witness ==
    /\ pc = "notify"
    /\ history_json.kind = "array"
    /\ Len(history_json.records) = 2
    /\ history_json.records[1].ts = 1
    /\ history_json.records[2].ts = 2
    /\ history_json.records[1].payload # history_json.records[2].payload

\* the classification the claim gives the tail <<oscillator, signal, histogram>>
C14_Class(tail) ==
    CASE tail[1] > tail[2] /\ tail[3] > 0 -> "BULL"
      [] tail[1] < tail[2] /\ tail[3] < 0 -> "BEAR"
      [] OTHER -> "NEUTRAL"

\* C14: every classification load_pair records is the one the latest
\* (oscillator, signal, histogram) gives: BULL iff oscillator > signal and
\* histogram > 0, BEAR iff oscillator < signal and histogram < 0, NEUTRAL
\* otherwise; it is one of the three, never BULL and BEAR at once, and the
\* same tail always gets the same classification.
C14_TrendOfTail ==
    \A i \in DOMAIN tasks :
        /\ Len(tasks[i].trends) = Len(tasks[i].tails)
        /\ \A k \in DOMAIN tasks[i].trends :
              LET tr == tasks[i].trends[k]
                  tl == tasks[i].tails[k]
              IN  /\ tr \in {"BULL", "BEAR", "NEUTRAL"}
                  /\ tr = "BULL" <=> (tl[1] > tl[2] /\ tl[3] > 0)
                  /\ tr = "BEAR" <=> (tl[1] < tl[2] /\ tl[3] < 0)
                  /\ tr = C14_Class(tl)
        /\ \A j, k \in DOMAIN tasks[i].trends :
              tasks[i].tails[j] = tasks[i].tails[k] =>
                  tasks[i].trends[j] = tasks[i].trends[k]

\* a call has classified an equality, a histogram against the comparison,
\* and a BULL
C14_Witness ==
    \E i \in DOMAIN tasks :
        /\ Len(tasks[i].trends) = 3
        /\ tasks[i].tails[1] = <<1, 1, 1>>
        /\ tasks[i].trends[1] = "NEUTRAL"
        /\ tasks[i].tails[2] = <<1, 0, -1>>
        /\ tasks[i].trends[2] = "NEUTRAL"
        /\ tasks[i].tails[3] = <<1, 0, 1>>
        /\ tasks[i].trends[3] = "BULL"

\* C15: a gateway call that fails on every attempt is attempted exactly the
\* configured number of times (max_retries), each failed attempt but the
\* last followed by a wait of the configured backoff (retry_backoff_sec),
\* before the error propagates.
C15_ConfiguredRetryPolicy ==
    /\ gw.st = "calling" => gw.attempt <= api.max_retries
    /\ gw.st = "raised" => Len(gw.outcomes) = api.max_retries
    /\ gw.st # "idle" =>
          \A i \in DOMAIN gw.log :
              gw.log[i][1] = "wait" => gw.log[i][2] = api.retry_backoff_sec

\* the delivery outcomes recorded in a cycle's outputs
Deliveries(out) == SelectSeq(out, LAMBDA e : e \in {"notify", "notify_error_logged"})

\* C16: the step that hands the report to the notification sink makes one
\* delivery attempt; when the delivery fails, the failure is logged, the
\* cycle does not take its error path and goes to its sleep, and the report
\* and the history record written earlier in the cycle stay as they are.
C16_Step ==
    pc = "notify" =>
        /\ pc' = "sleep"
        /\ cycle_error' = cycle_error
        /\ history_json' = history_json
        /\ \E e \in {"notify", "notify_error_logged"} : emitted' = Append(emitted, e)
        /\ Len(Deliveries(emitted')) = 1
        /\ \E i \in DOMAIN emitted' : emitted'[i] = "report"

NameOf(tok) == Str(upper(strip(tok)))

\* the written tokens whose names are in the set, by name and in order
Named(written, set) ==
    LET hits == SelectSeq(written, LAMBDA t : NameOf(t) \in set)
    IN  [i \in DOMAIN hits |-> NameOf(hits[i])]

\* the supported set as the claim names it, in upper case
C17_StatedSet == {"5M", "15M", "30M", "1H", "4H", "6H", "12H", "1D", "1W", "1MO"}

\* C17 as stated: the timeframe list read from TIMEFRAMES is, in input
\* order, the tokens that are members of {5m, 15m, 30m, 1h, 4h, 6h, 12h, 1d,
\* 1w, 1mo}, every other token dropped, and it is never empty.
C17_ValidatedAgainstStatedSet ==
    (pc # "config" /\ env.TIMEFRAMES # <<>>) =>
        /\ cfg.TIMEFRAMES # <<>>
        /\ Named(env.written, C17_StatedSet) # <<>> =>
              cfg.TIMEFRAMES = Named(env.written, C17_StatedSet)

\* C17: the timeframe list read from TIMEFRAMES is, in input order, the
\* names (stripped, upper-cased) of the comma-separated tokens that are keys
\* of TF_TO_BYBIT, which are 5M, 15M, 30M, 1H, 4H, 6H, 12H, 1D, 1W and 1M,
\* every other token dropped; when no token is left it is the default
\* 1D, 1W, so it is never empty.
C17_ValidatedAgainstKeys ==
    (pc # "config" /\ env.TIMEFRAMES # <<>>) =>
        /\ cfg.TIMEFRAMES # <<>>
        /\ \A i \in DOMAIN cfg.TIMEFRAMES : cfg.TIMEFRAMES[i] \in TF_TO_BYBIT_keys
        /\ cfg.TIMEFRAMES =
              IF Named(env.written, TF_TO_BYBIT_keys) = <<>>
              THEN <<"1D", "1W">>
              ELSE Named(env.written, TF_TO_BYBIT_keys)

\* TIMEFRAMES was " 4h ,7h": the first token is kept under its name, the
\* unknown one dropped
C17_Witness ==
    /\ pc # "config"
    /\ env.written = << <<" ", "4", "h", " ">>, <<"7", "h">> >>
    /\ cfg.TIMEFRAMES = <<"4H">>

\* C18: get_instruments returns only entries whose status is trading, whose
\* quote or settle currency is USDT and, in the linear category, whose
\* contract type is perpetual; filtering what it returned once more changes
\* nothing.
C18_OnlyTradingUsdtPerpetual ==
    (gw.fn = "get_instruments" /\ gw.st = "returned") =>
        LET out == gw.result[1]
        IN  /\ \A i \in DOMAIN out :
                  /\ out[i].status = "Trading"
                  /\ out[i].quoteCoin = "USDT" \/ out[i].settleCoin = "USDT"
                  /\ out[i].contractType = "LinearPerpetual"
            /\ FilterInstruments("linear", out) = out

\* the candles of a list as a bag
CandleBag(lst) ==
    [c \in Range(lst) |-> Cardinality({i \in DOMAIN lst : lst[i] = c})]

\* C19 as stated: whatever the order of the provider's list, get_klines
\* returns its candles with each timestamp strictly greater than the one
\* before it, a permutation of the input.
C19_StrictlyAscending ==
    (gw.fn = "get_klines" /\ gw.st = "returned") =>
        LET out == gw.result[1]
        IN  /\ \A i \in 1..(Len(out) - 1) : out[i].ts < out[i + 1].ts
            /\ CandleBag(out) = CandleBag(gw.body)

\* C19: whatever the order of the provider's list, get_klines returns its
\* candles in ascending order of timestamp, candles of equal timestamp in
\* the provider's order, a permutation of the input; the order is strict
\* exactly when the provider's timestamps are distinct.
C19_Ascending ==
    (gw.fn = "get_klines" /\ gw.st = "returned") =>
        LET out == gw.result[1]
            in == gw.body
        IN  /\ \A i \in 1..(Len(out) - 1) : out[i].ts <= out[i + 1].ts
            /\ CandleBag(out) = CandleBag(in)
            /\ \A i, j \in DOMAIN in :
                  (i < j /\ in[i].ts = in[j].ts /\ in[i] # in[j]) =>
                      \E a, b \in DOMAIN out : a < b /\ out[a] = in[i] /\ out[b] = in[j]
            /\ (\A i, j \in DOMAIN in : i # j => in[i].ts # in[j].ts)
                  <=> (\A i \in 1..(Len(out) - 1) : out[i].ts < out[i + 1].ts)

\* a list that came newest first and with one timestamp twice is returned
\* oldest first, the two candles of the same timestamp as they came
C19_Witness ==
    /\ gw.fn = "get_klines"
    /\ gw.st = "returned"
    /\ gw.body = <<Candle(2, 1, TRUE), Candle(2, 2, TRUE), Candle(1, 3, TRUE)>>
    /\ gw.result[1] = <<Candle(1, 3, TRUE), Candle(2, 1, TRUE), Candle(2, 2, TRUE)>>

\* the items of a list are in descending order of rsi_sum
ByRsiSum(list) ==
    \A i \in 1..(Len(list) - 1) : rsi_sum(list[i]) >= rsi_sum(list[i + 1])

\* the rows of a section are in the order the header states: key, descending
AsHeaderStates(ranking, rows) ==
    \A i \in 1..(Len(rows) - 1) :
        /\ ranking.order = "descending"
        /\ IF ranking.key = "ATR"
           THEN rows[i].atr_pct >= rows[i + 1].atr_pct
           ELSE SumSeq(rows[i].rsi) >= SumSeq(rows[i + 1].rsi)

\* C21: the BULL and the BEAR list handed to the report and to the history
\* record are both in descending order of the sum of the record's
\* per-timeframe momentum values, and the rows of the written report are in
\* the order its header states.
C21_OneDocumentedRankingKey ==
    /\ pc \in {"report", "history", "notify"} =>
          (ByRsiSum(bull_sorted) /\ ByRsiSum(bear_sorted))
    /\ pc \in {"history", "notify"} =>
          /\ last_report[1].bull = section(bull_sorted)
          /\ last_report[1].bear = section(bear_sorted)
          /\ AsHeaderStates(last_report[1].ranking, last_report[1].bull)
          /\ AsHeaderStates(last_report[1].ranking, last_report[1].bear)

\* the outputs a cycle can have produced so far, in the order of main.py:276-289
OutputPrefixes ==
    { <<>>, <<"report">>, <<"report", "history">>,
      <<"report", "history", "notify">>,
      <<"report", "history", "notify_error_logged">> }

\* C22: the report file is written only by the report step and the history
\* log only by the history step that follows it; the outputs of a cycle are
\* produced in the order report, history, notification, so a notification
\* is sent only after both were written; and a cycle that ends with an
\* error of a stage before the outputs has produced no output, the two
\* files left as they were.
C22_Step ==
    /\ emitted' \in OutputPrefixes
    /\ last_report' # last_report =>
          (pc = "report" /\ emitted = <<>> /\ emitted' = <<"report">>)
    /\ history_json' # history_json =>
          (pc = "history" /\ emitted = <<"report">>
             /\ emitted' = <<"report", "history">>)
    /\ emitted' # emitted =>
          \/ emitted' = <<>> /\ pc = "sleep"
          \/ \E e \in {"report", "history", "notify", "notify_error_logged"} :
                emitted' = Append(emitted, e)
    /\ cycle_error' \in StagesBeforeOutput =>
          (emitted' = <<>> /\ last_report' = last_report
             /\ history_json' = history_json)

C22_FailedCycleLeavesOutputs == [][C22_Step]_vars

\* a cycle wrote the report and the history record; the next cycle failed
\* fetching the tickers and the two files are as the first cycle left them
C22_Witness ==
    /\ pc = "sleep"
    /\ cycle_error = "tickers"
    /\ emitted = <<>>
    /\ last_report # <<>>
    /\ Len(last_report[1].bull) = 2
    /\ history_json.kind = "array"
    /\ Len(history_json.records) = 1
    /\ section(history_json.records[1].payload.bull) = last_report[1].bull

=============================================================================
